---- MODULE Spec2Model ----
(***************************************************************************)
(* JSON-RPC 2.0 dispatcher of webboard: the message model                  *)
(* (features/jsonrpc/domain), the method registry and dispatcher           *)
(* (features/jsonrpc/application/service.rs) and the WebSocket connection  *)
(* handler (features/jsonrpc/presentation/handler.rs).                     *)
(*                                                                         *)
(* Tasks are tokio tasks: one per connection, one per registration spawned *)
(* by the constructor, one per register_method call of the application.    *)
(* The registry is a HashMap behind a tokio RwLock (FIFO, write-preferring:*)
(* an acquirer that cannot be served at once queues, and a queued writer   *)
(* keeps later readers behind it).                                         *)
(***************************************************************************)
EXTENDS Integers, Sequences, FiniteSets, TLC

\* Number of inbound frames the connections read, all together, before the
\* model stops reading.
MaxFrames == 2

(***************************************************************************)
(* serde_json::Value and Option                                            *)
(***************************************************************************)
JNull == <<"null">>
JBool(b) == <<"bool", b>>
JInt(n) == <<"int", n>>
JFloat(n) == <<"float", n>>
JStr(s) == <<"str", s>>
\* a JSON string given by the fragments format! concatenates
JFmt(frags) == <<"fmt", frags>>
JArr(s) == <<"arr", s>>
JObj(o) == <<"obj", o>>

None == <<>>
Some(v) == <<v>>
IsSome(o) == o # <<>>
UnwrapOr(o, d) == IF o = <<>> THEN d ELSE o[1]

NoTask == "none"
NoHandler == "none"

(***************************************************************************)
(* Error codes and error objects (domain/error_code.rs)                    *)
(***************************************************************************)
ParseError == -32700
InvalidRequest == -32600
MethodNotFound == -32601
InvalidParams == -32602
InternalError == -32603
ServerError == -32000

\* JsonRpcErrorCode::message
CodeMessage(code) ==
    CASE code = ParseError -> <<"Parse error">>
      [] code = InvalidRequest -> <<"Invalid Request">>
      [] code = MethodNotFound -> <<"Method not found">>
      [] code = InvalidParams -> <<"Invalid params">>
      [] code = InternalError -> <<"Internal error">>
      [] code = ServerError -> <<"Server error">>

\* JsonRpcErrorObject::new ; a message is the sequence of the fragments
\* format! concatenates.
ErrorObjectNew(code, data) == [code |-> code, message |-> CodeMessage(code), data |-> data]

\* a custom that takes the code of a server error whatever code it is given
ErrorObjectCustom_ServerCode(code, message, data) == [code |-> ServerError, message |-> message, data |-> data]

\* JsonRpcErrorObject::custom
ErrorObjectCustom(code, message, data) == [code |-> code, message |-> message, data |-> data]

(***************************************************************************)
(* Requests and responses (domain/message.rs)                              *)
(***************************************************************************)
\* JsonRpcRequest::new
RequestNew(method, params, id) == [jsonrpc |-> "2.0", method |-> method, params |-> params, id |-> id]

\* is_notification that takes every request for a call
IsNotification_Never(req) == FALSE

\* JsonRpcRequest::is_notification
IsNotification(req) == req.id = None

\* the characters of the strings the model uses as method names
Chars(m) ==
    CASE m = "" -> <<>>
      [] m = "echo" -> <<"e", "c", "h", "o">>
      [] m = "ping" -> <<"p", "i", "n", "g">>
      [] m = "add" -> <<"a", "d", "d">>
      [] m = "getServerInfo" -> <<"g", "e", "t", "S", "e", "r", "v", "e", "r", "I", "n", "f", "o">>
      [] m = "slow" -> <<"s", "l", "o", "w">>
      [] m = "nope" -> <<"n", "o", "p", "e">>
      [] m = "test.method" -> <<"t", "e", "s", "t", ".", "m", "e", "t", "h", "o", "d">>
      [] m = "rpc" -> <<"r", "p", "c">>
      [] m = "rpc." -> <<"r", "p", "c", ".">>
      [] m = "rpc.internal" -> <<"r", "p", "c", ".", "i", "n", "t", "e", "r", "n", "a", "l">>
      [] m = "rpc.reserved" -> <<"r", "p", "c", ".", "r", "e", "s", "e", "r", "v", "e", "d">>
      [] m = "rpcx" -> <<"r", "p", "c", "x">>
      [] m = "RPC.x" -> <<"R", "P", "C", ".", "x">>
      [] m = "Rpc.internal" -> <<"R", "p", "c", ".", "i", "n", "t", "e", "r", "n", "a", "l">>
      [] m = "xrpc.y" -> <<"x", "r", "p", "c", ".", "y">>

\* str::starts_with: the pattern is a prefix of the string, compared character
\* by character
StartsWith(s, pat) == Len(s) >= Len(pat) /\ SubSeq(s, 1, Len(pat)) = pat

\* starts_with with the dot left out of the pattern
StartsWithRpcDot_NoDot(m) == StartsWith(Chars(m), <<"r", "p", "c">>)

\* self.method.starts_with("rpc.")
StartsWithRpcDot(m) == StartsWith(Chars(m), <<"r", "p", "c", ".">>)

\* validate() without the check of the reserved prefix
Validate_NoReservedCheck(req) ==
    IF req.jsonrpc # "2.0" THEN <<"err", <<"Invalid JSON-RPC version. Must be '2.0'">>>>
    ELSE IF req.method = "" THEN <<"err", <<"Method name cannot be empty">>>>
    ELSE <<"ok">>

\* JsonRpcRequest::validate: Ok is <<"ok">>, Err(e) is <<"err", e>>
Validate(req) ==
    IF req.jsonrpc # "2.0" THEN <<"err", <<"Invalid JSON-RPC version. Must be '2.0'">>>>
    ELSE IF req.method = "" THEN <<"err", <<"Method name cannot be empty">>>>
    ELSE IF StartsWithRpcDot(req.method) THEN <<"err", <<"Method names starting with 'rpc.' are reserved">>>>
    ELSE <<"ok">>

\* JsonRpcResponse::new
ResponseNew(result, id) == [jsonrpc |-> "2.0", result |-> result, id |-> id]

\* JsonRpcErrorResponse::new
ErrorResponseNew(error, id) == [jsonrpc |-> "2.0", error |-> error, id |-> id]

\* JsonRpcErrorResponse::from_code
ErrorResponseFromCode(code, id) == ErrorResponseNew(ErrorObjectNew(code, None), id)

\* JsonRpcErrorResponse::custom
ErrorResponseCustom(code, message, id) == ErrorResponseNew(ErrorObjectCustom(code, message, None), id)

(***************************************************************************)
(* serde: #[derive(Serialize, Deserialize)] of the message types.          *)
(* A JSON text is modelled by the value it denotes, or <<"malformed">>.    *)
(* A JSON object is a function from member names to values.                *)
(***************************************************************************)
Malformed == <<"malformed">>

\* Deserialize of an Option<Value> member: an absent member and an explicit
\* null both give None (serde_json's deserialize_option visits none on null).
MemberOption(o, k) == IF k \notin DOMAIN o THEN None ELSE IF o[k] = JNull THEN None ELSE Some(o[k])

\* Deserialize of a String member: present and a JSON string
MemberIsString(o, k) == IF k \in DOMAIN o THEN o[k][1] = "str" ELSE FALSE

\* serde_json::from_str::<JsonRpcRequest>: <<"ok", request>> or <<"err">>
ParseRequest(text) ==
    IF text[1] # "obj" THEN <<"err">>
    ELSE LET o == text[2] IN
         IF ~MemberIsString(o, "jsonrpc") \/ ~MemberIsString(o, "method") THEN <<"err">>
         ELSE <<"ok", [jsonrpc |-> o["jsonrpc"][2], method |-> o["method"][2],
                       params |-> MemberOption(o, "params"), id |-> MemberOption(o, "id")]>>

\* Serialize of JsonRpcErrorObject: data is skipped when None
ErrorObjectToJson(e) ==
    IF e.data = None
    THEN JObj([code |-> JInt(e.code), message |-> JFmt(e.message)])
    ELSE JObj([code |-> JInt(e.code), message |-> JFmt(e.message), data |-> e.data[1]])

\* Deserialize of a Value member: any JSON value, null included; an absent
\* member is an error (missing field)
MemberPresent(o, k) == k \in DOMAIN o

\* a JSON string, written whole or by format!
IsJsonString(v) == v[1] \in {"str", "fmt"}

\* the String a JSON string decodes to, as the sequence of its fragments
StringOf(v) == IF v[1] = "fmt" THEN v[2] ELSE <<v[2]>>

\* serde_json::from_str::<JsonRpcResponse>: <<"ok", response>> or <<"err">>
DecodeResponse(text) ==
    IF text[1] # "obj" THEN <<"err">>
    ELSE LET o == text[2] IN
         IF ~MemberIsString(o, "jsonrpc") \/ ~MemberPresent(o, "result") \/ ~MemberPresent(o, "id") THEN <<"err">>
         ELSE <<"ok", [jsonrpc |-> o["jsonrpc"][2], result |-> o["result"], id |-> o["id"]]>>

\* Deserialize of JsonRpcErrorObject: code an i32, message a String, data an
\* Option<Value>
DecodeErrorObject(v) ==
    IF v[1] # "obj" THEN <<"err">>
    ELSE LET o == v[2] IN
         IF ~MemberPresent(o, "code") \/ ~MemberPresent(o, "message") THEN <<"err">>
         ELSE IF o["code"][1] # "int" \/ ~IsJsonString(o["message"]) THEN <<"err">>
         ELSE <<"ok", [code |-> o["code"][2], message |-> StringOf(o["message"]), data |-> MemberOption(o, "data")]>>

\* serde_json::from_str::<JsonRpcErrorResponse>
DecodeErrorResponse(text) ==
    IF text[1] # "obj" THEN <<"err">>
    ELSE LET o == text[2] IN
         IF ~MemberIsString(o, "jsonrpc") \/ ~MemberPresent(o, "error") \/ ~MemberPresent(o, "id") THEN <<"err">>
         ELSE LET e == DecodeErrorObject(o["error"]) IN
              IF e[1] = "err" THEN <<"err">>
              ELSE <<"ok", [jsonrpc |-> o["jsonrpc"][2], error |-> e[2], id |-> o["id"]]>>

\* serde_json::to_string(&JsonRpcResponse)
ResponseToJson(r) == JObj([jsonrpc |-> JStr(r.jsonrpc), result |-> r.result, id |-> r.id])

\* an encoder that leaves a null id out, as for an Option skipped when None
ErrorResponseToJson_SkipNullId(r) ==
    IF r.id = JNull
    THEN JObj([jsonrpc |-> JStr(r.jsonrpc), error |-> ErrorObjectToJson(r.error)])
    ELSE JObj([jsonrpc |-> JStr(r.jsonrpc), error |-> ErrorObjectToJson(r.error), id |-> r.id])

\* serde_json::to_string(&JsonRpcErrorResponse)
ErrorResponseToJson(r) == JObj([jsonrpc |-> JStr(r.jsonrpc), error |-> ErrorObjectToJson(r.error), id |-> r.id])

\* a parse error reported under the code of an invalid request
CreateParseError_AsInvalidRequest(message) == ErrorResponseToJson(ErrorResponseCustom(InvalidRequest, message, JNull))

\* create_parse_error (presentation/handler.rs)
CreateParseError(message) == ErrorResponseToJson(ErrorResponseCustom(ParseError, message, JNull))

\* create_internal_error (presentation/handler.rs)
CreateInternalError == ErrorResponseToJson(ErrorResponseFromCode(InternalError, JNull))

(***************************************************************************)
(* Handlers.  An invocation yields <<"ok", value>> or <<"err", object>>.   *)
(***************************************************************************)
BuiltinNames == {"echo", "ping", "add", "getServerInfo"}

\* Handlers the application registers; their bodies are arbitrary.
AppHandlers == {"h1", "h2"}

\* chrono::Utc::now().timestamp() values the model draws from
Timestamps == {1699564800}

\* Value::as_f64
AsF64(v) == IF v[1] \in {"int", "float"} THEN Some(v[2]) ELSE None

InvalidParamsError(text) == <<"err", ErrorObjectCustom(InvalidParams, <<text>>, None)>>

\* an echo that wraps the params in an object
EchoHandler_Wrapped(params) == {<<"ok", JObj([echo |-> UnwrapOr(params, JNull)])>>}

\* the closure registered under "echo"
EchoHandler(params) == {<<"ok", UnwrapOr(params, JNull)>>}

\* the closure registered under "ping"
PingHandler(params) == {<<"ok", JObj([pong |-> JBool(TRUE), timestamp |-> JInt(t)])>> : t \in Timestamps}

\* an add that examines the elements before their number
AddHandler_TypesFirst(params) ==
    IF params = None THEN {InvalidParamsError("Parameters required")}
    ELSE IF params[1][1] # "arr" THEN {InvalidParamsError("Parameters must be an array of numbers")}
    ELSE LET numbers == params[1][2] IN
         IF Len(numbers) >= 1 /\ AsF64(numbers[1]) = None THEN {InvalidParamsError("First parameter must be a number")}
         ELSE IF Len(numbers) >= 2 /\ AsF64(numbers[2]) = None THEN {InvalidParamsError("Second parameter must be a number")}
         ELSE IF Len(numbers) # 2 THEN {InvalidParamsError("Exactly two numbers required")}
         ELSE {<<"ok", JFloat(AsF64(numbers[1])[1] + AsF64(numbers[2])[1])>>}

\* the closure registered under "add"; json!(a + b) of two f64 is a float
AddHandler(params) ==
    IF params = None THEN {InvalidParamsError("Parameters required")}
    ELSE IF params[1][1] # "arr" THEN {InvalidParamsError("Parameters must be an array of numbers")}
    ELSE LET numbers == params[1][2] IN
         IF Len(numbers) # 2 THEN {InvalidParamsError("Exactly two numbers required")}
         ELSE IF AsF64(numbers[1]) = None THEN {InvalidParamsError("First parameter must be a number")}
         ELSE IF AsF64(numbers[2]) = None THEN {InvalidParamsError("Second parameter must be a number")}
         ELSE {<<"ok", JFloat(AsF64(numbers[1])[1] + AsF64(numbers[2])[1])>>}

\* the closure registered under "getServerInfo"
ServerInfoHandler(params) ==
    {<<"ok", JObj([name |-> JStr("webboard"), version |-> JStr("CARGO_PKG_VERSION"),
                   jsonrpc_version |-> JStr("2.0"),
                   capabilities |-> JArr(<<JStr("echo"), JStr("ping"), JStr("add"), JStr("getServerInfo")>>)])>>}

\* an application handler: any Result<Value, JsonRpcErrorObject>
AppHandler(h, params) ==
    {<<"ok", JStr(h)>>, <<"err", ErrorObjectCustom(ServerError, <<"application failure">>, Some(JStr(h)))>>}

\* MethodHandler: the outcomes an invocation of handler h can return
HandlerOutcomes(h, params) ==
    CASE h = "echo" -> EchoHandler(params)
      [] h = "ping" -> PingHandler(params)
      [] h = "add" -> AddHandler(params)
      [] h = "getServerInfo" -> ServerInfoHandler(params)
      [] OTHER -> AppHandler(h, params)

\* The built-in closures always complete; an application future may stay
\* pending for ever.
MayHang(h) == h \in AppHandlers

\* The built-in closures do not panic; an application closure may.
MayPanic(h) == h \in AppHandlers

(***************************************************************************)
(* Tasks and inputs                                                        *)
(***************************************************************************)
\* connection tasks (handle_socket), one per WebSocket connection
Conns == {"c1", "c2"}

\* the tasks JsonRpcService::new spawns, named by the method they register
SpawnedTasks == BuiltinNames

\* register_method calls made by the application, one task each
AppRegs == {"r1"}

\* a register_method call the application makes once an earlier one has
\* returned, under the same name
LaterRegs == {"r2"}

\* list_methods calls made by the application, one task each
Listers == {"l1", "l2"}

RegTasks == SpawnedTasks \cup AppRegs \cup LaterRegs

Tasks == Conns \cup RegTasks \cup Listers

\* names and handlers the application registers
AppRegNames == {"slow"}

\* members of the text frames the peers send
FrameVersions == {"2.0", "1.0"}
FrameMethods == {"echo", "ping", "slow", "nope", "rpc.internal", ""}
FrameParams == {None, Some(JObj([msg |-> JStr("hi")]))}
\* the id member: absent, null, or a number
FrameIds == {None, Some(JNull), Some(JInt(1)), Some(JInt(7))}

\* the JSON object with the given members; None leaves a member out
Doc(v, m, p, i) ==
    JObj(("jsonrpc" :> JStr(v)) @@ ("method" :> JStr(m))
         @@ (IF p = None THEN <<>> ELSE ("params" :> p[1]))
         @@ (IF i = None THEN <<>> ELSE ("id" :> i[1])))

\* the texts a peer sends: every combination of the members, and a text that
\* is not JSON
TextDocs ==
    {Doc(v, m, p, i) : v \in FrameVersions, m \in FrameMethods, p \in FrameParams, i \in FrameIds}
    \cup {Malformed}

\* the texts of the peers of two concurrent connections: a notification and a
\* call of an application method, a call of a built-in, and a call of the
\* wrong version
ConcDocs ==
    {Doc("2.0", "slow", None, None),
     Doc("2.0", "slow", None, Some(JInt(1))),
     Doc("2.0", "echo", Some(JObj([msg |-> JStr("hi")])), Some(JInt(7))),
     Doc("1.0", "ping", None, Some(JInt(1)))}

PingPayloads == {"k", "m"}

(***************************************************************************)
(* State                                                                   *)
(***************************************************************************)
VARIABLES
    methods,     \* the registry HashMap: a function from names to handlers
    rw_readers,  \* tasks holding a read guard of the RwLock
    rw_writer,   \* task holding the write guard, or NoTask
    rw_queue,    \* FIFO of <<task, "r" | "w">> waiting for the lock
    pc,          \* position of every task
    reg,         \* per registering task: the name and handler it registers
    frame,       \* per connection: the inbound frame being processed
    handler,     \* per connection: the handler being invoked
    ret,         \* per connection: what handle_request returned
    reply,       \* per connection: outbound frames sent for the current frame
    nread,       \* per connection: number of inbound frames read
    lookups,     \* per connection: registry lookups made for the current frame
    invoked,     \* per connection: handlers invoked for the current frame
    sawHung,     \* per connection: whether, when the current frame was read, a
                 \* handler invoked for another connection was already stuck
    outcome,     \* per connection: how the handler invoked for the current
                 \* frame completed
    closedBy,    \* per connection: what ended the loop of handle_socket
    listed,      \* per list_methods call: the Vec of names it returned
    tapped,      \* the connections whose wire an observer records
    wire         \* per tapped connection: the frames the observer has seen,
                 \* inbound and outbound, in order

vars == <<methods, rw_readers, rw_writer, rw_queue, pc, reg, frame, handler, ret,
          reply, nread, lookups, invoked, sawHung, outcome, closedBy, listed, tapped, wire>>

lockvars == <<rw_readers, rw_writer, rw_queue>>
framevars == <<frame, handler, ret, reply, nread, lookups, invoked, sawHung, outcome>>
connvars == <<framevars, closedBy>>
obsvars == <<tapped, wire>>

NoFrame == [kind |-> "none"]
TextFrame(t) == [kind |-> "text", text |-> t]
PongFrame(d) == [kind |-> "pong", data |-> d]

\* handle_request has not been called / has not returned
NotCalled == <<"NotCalled">>
Pending == <<"Pending">>
\* Option<Result<JsonRpcResponse, JsonRpcErrorResponse>>
RetNone == <<"None">>
RetOk(r) == <<"Some", "Ok", r>>
RetErr(e) == <<"Some", "Err", e>>

\* the handler future has not completed
NoOutcome == <<"none">>
\* the handler future panicked
Panicked == <<"panic">>

\* the loop of handle_socket is running
StillOpen == "open"

EmptyMap == [k \in {} |-> NoHandler]

\* an insert that keeps the entry a name already has
Insert_KeepFirst(m, name, h) ==
    IF name \in DOMAIN m THEN m ELSE [k \in (DOMAIN m) \cup {name} |-> IF k = name THEN h ELSE m[k]]

\* an insert that is lost
Insert_Dropped(m, name, h) == m

\* an insert that evicts the other entries
Insert_Replacing(m, name, h) == [k \in {name} |-> h]

\* HashMap::insert
Insert(m, name, h) == [k \in (DOMAIN m) \cup {name} |-> IF k = name THEN h ELSE m[k]]

Init ==
    /\ methods = EmptyMap
    /\ rw_readers = {}
    /\ rw_writer = NoTask
    /\ rw_queue = <<>>
    /\ pc = [t \in Tasks |-> IF t \in Conns THEN "recv" ELSE IF t \in SpawnedTasks THEN "spawned" ELSE "idle"]
    /\ reg = [t \in RegTasks |-> IF t \in SpawnedTasks THEN [name |-> t, h |-> t] ELSE [name |-> "", h |-> NoHandler]]
    /\ frame = [c \in Conns |-> NoFrame]
    /\ handler = [c \in Conns |-> NoHandler]
    /\ ret = [c \in Conns |-> NotCalled]
    /\ reply = [c \in Conns |-> <<>>]
    /\ nread = [c \in Conns |-> 0]
    /\ lookups = [c \in Conns |-> 0]
    /\ invoked = [c \in Conns |-> <<>>]
    /\ sawHung = [c \in Conns |-> FALSE]
    /\ outcome = [c \in Conns |-> NoOutcome]
    /\ closedBy = [c \in Conns |-> StillOpen]
    /\ listed = [l \in Listers |-> <<>>]
    /\ tapped = {}
    /\ wire = [c \in Conns |-> <<>>]

(***************************************************************************)
(* tokio::sync::RwLock                                                     *)
(***************************************************************************)
\* read() is served at once when no writer holds the lock and nobody waits
CanRead == rw_writer = NoTask /\ rw_queue = <<>>

\* write() is served at once when the lock is free and nobody waits
CanWrite == rw_writer = NoTask /\ rw_readers = {} /\ rw_queue = <<>>

\* Releasing a guard hands the lock to the waiters at the head of the queue:
\* a run of readers, or one writer once no reader is left.
RECURSIVE Grant(_, _, _, _)
Grant(readers, writer, queue, woken) ==
    IF queue = <<>> \/ writer # NoTask
    THEN [readers |-> readers, writer |-> writer, queue |-> queue, woken |-> woken]
    ELSE IF queue[1][2] = "r"
    THEN Grant(readers \cup {queue[1][1]}, writer, Tail(queue), woken \cup {queue[1][1]})
    ELSE IF readers = {}
    THEN [readers |-> readers, writer |-> queue[1][1], queue |-> Tail(queue), woken |-> woken \cup {queue[1][1]}]
    ELSE [readers |-> readers, writer |-> writer, queue |-> queue, woken |-> woken]

\* drop of the read guard held by task t
AfterReadRelease(t) == Grant(rw_readers \ {t}, rw_writer, rw_queue, {})

\* drop of the write guard
AfterWriteRelease == Grant(rw_readers, NoTask, rw_queue, {})

\* the lock after a release, and the tasks it wakes holding their guard
SetLock(g) ==
    /\ rw_readers' = g.readers
    /\ rw_writer' = g.writer
    /\ rw_queue' = g.queue

PcAfter(self, newpc, g) ==
    [t \in Tasks |-> IF t = self THEN newpc
                     ELSE IF t \in g.woken THEN "locked"
                     ELSE pc[t]]

(***************************************************************************)
(* The observer of the wire                                                *)
(***************************************************************************)
\* what an observer of the wire of connection c sees in a step: the inbound
\* frame handle_socket has read, or the outbound frame it has sent, with the
\* number of the inbound frame being processed
Observed(c) ==
    IF nread'[c] # nread[c]
    THEN <<[dir |-> "in", n |-> nread'[c], frame |-> frame'[c]]>>
    ELSE IF Len(reply'[c]) > Len(reply[c])
    THEN <<[dir |-> "out", n |-> nread[c], frame |-> reply'[c][Len(reply'[c])]]>>
    ELSE <<>>

\* the record of the observer after a step that reads or sends a frame
Record ==
    /\ wire' = [c \in Conns |-> IF c \in tapped THEN wire[c] \o Observed(c) ELSE wire[c]]
    /\ UNCHANGED tapped

(***************************************************************************)
(* JsonRpcService::register_method                                         *)
(***************************************************************************)
\* self.methods.write().await : served at once or queued
AcquireWrite(t) ==
    IF CanWrite
    THEN /\ rw_writer' = t
         /\ pc' = [pc EXCEPT ![t] = "locked"]
         /\ UNCHANGED <<rw_readers, rw_queue>>
    ELSE /\ rw_queue' = Append(rw_queue, <<t, "w">>)
         /\ pc' = [pc EXCEPT ![t] = "waiting"]
         /\ UNCHANGED <<rw_readers, rw_writer>>

\* a spawned task that gives up when the lock is not free at once
SpawnedRegister_TryWrite(t) ==
    /\ pc[t] = "spawned"
    /\ IF CanWrite
       THEN /\ rw_writer' = t
            /\ pc' = [pc EXCEPT ![t] = "locked"]
       ELSE /\ pc' = [pc EXCEPT ![t] = "done"]
            /\ UNCHANGED rw_writer
    /\ UNCHANGED <<rw_readers, rw_queue>>
    /\ UNCHANGED <<methods, reg>>
    /\ UNCHANGED connvars
    /\ UNCHANGED obsvars
    /\ UNCHANGED listed

\* a task spawned by register_builtin_methods starts its register_method call
SpawnedRegister(t) ==
    /\ pc[t] = "spawned"
    /\ AcquireWrite(t)
    /\ UNCHANGED <<methods, reg>>
    /\ UNCHANGED connvars
    /\ UNCHANGED obsvars
    /\ UNCHANGED listed

\* the application calls register_method(name, h)
AppRegister(r, name, h) ==
    /\ pc[r] = "idle"
    /\ reg' = [reg EXCEPT ![r] = [name |-> name, h |-> h]]
    /\ AcquireWrite(r)
    /\ UNCHANGED methods
    /\ UNCHANGED connvars
    /\ UNCHANGED obsvars
    /\ UNCHANGED listed

\* methods.insert(name, wrapped_handler); the write guard drops on return
RegisterInsert(t) ==
    /\ pc[t] = "locked"
    /\ methods' = Insert(methods, reg[t].name, reg[t].h)
    /\ LET g == AfterWriteRelease IN
        /\ SetLock(g)
        /\ pc' = PcAfter(t, "done", g)
    /\ UNCHANGED reg
    /\ UNCHANGED connvars
    /\ UNCHANGED obsvars
    /\ UNCHANGED listed

\* the application calls register_method again, after the call of task prev
\* has returned and under the same name
AppRegisterAgain(r, prev, h) ==
    /\ pc[r] = "idle"
    /\ pc[prev] = "done"
    /\ reg' = [reg EXCEPT ![r] = [name |-> reg[prev].name, h |-> h]]
    /\ AcquireWrite(r)
    /\ UNCHANGED methods
    /\ UNCHANGED connvars
    /\ UNCHANGED obsvars
    /\ UNCHANGED listed

(***************************************************************************)
(* JsonRpcService::list_methods                                            *)
(***************************************************************************)
\* the application calls list_methods, after the call of task prev (if any)
\* has returned: self.methods.read().await, served at once or queued
ListAcquire(l, prev) ==
    /\ pc[l] = "idle"
    /\ prev # NoTask => pc[prev] = "done"
    /\ IF CanRead
       THEN /\ rw_readers' = rw_readers \cup {l}
            /\ pc' = [pc EXCEPT ![l] = "locked"]
            /\ UNCHANGED <<rw_writer, rw_queue>>
       ELSE /\ rw_queue' = Append(rw_queue, <<l, "r">>)
            /\ pc' = [pc EXCEPT ![l] = "waiting"]
            /\ UNCHANGED <<rw_readers, rw_writer>>
    /\ UNCHANGED <<methods, reg, listed>>
    /\ UNCHANGED connvars
    /\ UNCHANGED obsvars

\* the Vecs that collecting the keys of a HashMap can give: each key once,
\* in whichever order the map iterates
RECURSIVE KeyOrders(_)
KeyOrders(S) == IF S = {} THEN {<<>>} ELSE UNION {{<<x>> \o v : v \in KeyOrders(S \ {x})} : x \in S}

\* the elements of a Vec
Elems(v) == {v[i] : i \in 1..Len(v)}

\* the Vecs a specification considers: every order of iteration, or a single
\* one where the order plays no part
Vecs(S, every) == IF every THEN KeyOrders(S) ELSE {CHOOSE v \in KeyOrders(S) : TRUE}

\* a list_methods that reports the built-in names whatever the map holds
ListCollect_Capabilities(l, every) ==
    /\ pc[l] = "locked"
    /\ \E v \in Vecs(BuiltinNames, every) : listed' = [listed EXCEPT ![l] = v]
    /\ LET g == AfterReadRelease(l) IN
        /\ SetLock(g)
        /\ pc' = PcAfter(l, "done", g)
    /\ UNCHANGED <<methods, reg>>
    /\ UNCHANGED connvars
    /\ UNCHANGED obsvars

\* methods.keys().cloned().collect(); the read guard drops on return
ListCollect(l, every) ==
    /\ pc[l] = "locked"
    /\ \E v \in Vecs(DOMAIN methods, every) : listed' = [listed EXCEPT ![l] = v]
    /\ LET g == AfterReadRelease(l) IN
        /\ SetLock(g)
        /\ pc' = PcAfter(l, "done", g)
    /\ UNCHANGED <<methods, reg>>
    /\ UNCHANGED connvars
    /\ UNCHANGED obsvars

(***************************************************************************)
(* JsonRpcService::handle_request                                          *)
(***************************************************************************)
\* the request of the text frame connection c is processing
Req(c) == ParseRequest(frame[c].text)[2]

\* the response returned when validate() fails with message e
InvalidRequestResponse(req, e) == ErrorResponseCustom(InvalidRequest, e, UnwrapOr(req.id, JNull))

\* an id that is not taken from the request
CallId_Null(req) == JNull

\* let id = request.id.clone().unwrap_or(Value::Null)
CallId(req) == UnwrapOr(req.id, JNull)

\* a not-found response built from the code alone, as from_code builds it
MethodNotFoundResponse_FromCode(req) == ErrorResponseFromCode(MethodNotFound, UnwrapOr(req.id, JNull))

\* the response returned when the registry has no entry for the method
MethodNotFoundResponse(req) ==
    ErrorResponseCustom(MethodNotFound, <<"Method '", req.method, "' not found">>, CallId(req))

\* a dispatcher that reports every handler failure as InternalError
HandlerResult_Coerced(req, o) ==
    IF o[1] = "ok"
    THEN RetOk(ResponseNew(o[2], CallId(req)))
    ELSE RetErr(ErrorResponseFromCode(InternalError, CallId(req)))

\* a dispatcher that drops the value the handler returned
HandlerResult_NullResult(req, o) ==
    IF o[1] = "ok"
    THEN RetOk(ResponseNew(JNull, CallId(req)))
    ELSE RetErr(ErrorResponseNew(o[2], CallId(req)))

\* match handler(request.params).await { Ok(..) => .., Err(..) => .. }
HandlerResult(req, o) ==
    IF o[1] = "ok"
    THEN RetOk(ResponseNew(o[2], CallId(req)))
    ELSE RetErr(ErrorResponseNew(o[2], CallId(req)))

\* whether the read guard is still alive while the handler future is awaited:
\* the notification branch awaits with `methods` in scope, the call branch
\* drops it first
GuardHeldAcrossInvoke(req) == IsNotification(req)

\* a dispatcher that consults the registry before it validates
HandleRequestEntry_RegisteredFirst(req) ==
    LET v == Validate(req) IN
    IF v[1] = "err" /\ req.method \notin DOMAIN methods
    THEN RetErr(InvalidRequestResponse(req, v[2]))
    ELSE Pending

\* entry of handle_request for a parsed request: validate(), and on failure
\* the early return
HandleRequestEntry(req) ==
    LET v == Validate(req) IN
    IF v[1] = "err" THEN RetErr(InvalidRequestResponse(req, v[2])) ELSE Pending

\* self.methods.read().await : served at once or queued
AcquireRead(c) ==
    /\ pc[c] = "read"
    /\ IF CanRead
       THEN /\ rw_readers' = rw_readers \cup {c}
            /\ pc' = [pc EXCEPT ![c] = "locked"]
            /\ UNCHANGED <<rw_writer, rw_queue>>
       ELSE /\ rw_queue' = Append(rw_queue, <<c, "r">>)
            /\ pc' = [pc EXCEPT ![c] = "waiting"]
            /\ UNCHANGED <<rw_readers, rw_writer>>
    /\ UNCHANGED <<methods, reg>>
    /\ UNCHANGED connvars
    /\ UNCHANGED obsvars
    /\ UNCHANGED listed

\* a lookup that records the name it missed in the registry
Lookup_InsertsOnMiss(c) ==
    /\ pc[c] = "locked"
    /\ LET req == Req(c)
           found == req.method \in DOMAIN methods
       IN
        /\ lookups' = [lookups EXCEPT ![c] = @ + 1]
        /\ IF found
           THEN /\ handler' = [handler EXCEPT ![c] = methods[req.method]]
                /\ invoked' = [invoked EXCEPT ![c] = Append(@, <<methods[req.method], req.params>>)]
                /\ ret' = ret
                /\ IF GuardHeldAcrossInvoke(req)
                   THEN /\ pc' = [pc EXCEPT ![c] = "invoke"]
                        /\ UNCHANGED lockvars
                   ELSE LET g == AfterReadRelease(c) IN
                        /\ SetLock(g)
                        /\ pc' = PcAfter(c, "invoke", g)
           ELSE /\ UNCHANGED <<handler, invoked>>
                /\ ret' = [ret EXCEPT ![c] = IF IsNotification(req) THEN RetNone
                                             ELSE RetErr(MethodNotFoundResponse(req))]
                /\ LET g == AfterReadRelease(c) IN
                    /\ SetLock(g)
                    /\ pc' = PcAfter(c, IF IsNotification(req) THEN "recv" ELSE "send", g)
    /\ methods' = IF Req(c).method \in DOMAIN methods THEN methods
                   ELSE [k \in (DOMAIN methods) \cup {Req(c).method} |-> IF k = Req(c).method THEN NoHandler ELSE methods[k]]
    /\ UNCHANGED <<reg, frame, reply, nread, sawHung, outcome, closedBy>>
    /\ UNCHANGED obsvars
    /\ UNCHANGED listed

\* methods.get(&request.method) under the read guard, both branches
Lookup(c) ==
    /\ pc[c] = "locked"
    /\ LET req == Req(c)
           found == req.method \in DOMAIN methods
       IN
        /\ lookups' = [lookups EXCEPT ![c] = @ + 1]
        /\ IF found
           THEN /\ handler' = [handler EXCEPT ![c] = methods[req.method]]
                /\ invoked' = [invoked EXCEPT ![c] = Append(@, <<methods[req.method], req.params>>)]
                /\ ret' = ret
                /\ IF GuardHeldAcrossInvoke(req)
                   THEN /\ pc' = [pc EXCEPT ![c] = "invoke"]
                        /\ UNCHANGED lockvars
                   ELSE LET g == AfterReadRelease(c) IN
                        /\ SetLock(g)
                        /\ pc' = PcAfter(c, "invoke", g)
           ELSE /\ UNCHANGED <<handler, invoked>>
                /\ ret' = [ret EXCEPT ![c] = IF IsNotification(req) THEN RetNone
                                             ELSE RetErr(MethodNotFoundResponse(req))]
                /\ LET g == AfterReadRelease(c) IN
                    /\ SetLock(g)
                    /\ pc' = PcAfter(c, IF IsNotification(req) THEN "recv" ELSE "send", g)
    /\ UNCHANGED <<methods, reg, frame, reply, nread, sawHung, outcome, closedBy>>
    /\ UNCHANGED obsvars
    /\ UNCHANGED listed

\* a dispatcher that answers a notification whose handler failed
HandlerReturn_ReportsErrors(c) ==
    /\ pc[c] = "invoke"
    /\ \E o \in HandlerOutcomes(handler[c], Req(c).params) :
        LET req == Req(c) IN
        /\ outcome' = [outcome EXCEPT ![c] = o]
        /\ IF IsNotification(req) /\ o[1] = "ok"
           THEN /\ ret' = [ret EXCEPT ![c] = RetNone]
                /\ LET g == AfterReadRelease(c) IN
                    /\ SetLock(g)
                    /\ pc' = PcAfter(c, "recv", g)
           ELSE /\ ret' = [ret EXCEPT ![c] = HandlerResult(req, o)]
                /\ pc' = [pc EXCEPT ![c] = "send"]
                /\ UNCHANGED lockvars
    /\ UNCHANGED <<methods, reg, frame, handler, reply, nread, lookups, invoked, sawHung, closedBy>>
    /\ UNCHANGED obsvars
    /\ UNCHANGED listed

\* the handler future completes with outcome o
HandlerReturn(c) ==
    /\ pc[c] = "invoke"
    /\ \E o \in HandlerOutcomes(handler[c], Req(c).params) :
        LET req == Req(c) IN
        /\ outcome' = [outcome EXCEPT ![c] = o]
        /\ IF IsNotification(req)
           THEN /\ ret' = [ret EXCEPT ![c] = RetNone]
                /\ LET g == AfterReadRelease(c) IN
                    /\ SetLock(g)
                    /\ pc' = PcAfter(c, "recv", g)
           ELSE /\ ret' = [ret EXCEPT ![c] = HandlerResult(req, o)]
                /\ pc' = [pc EXCEPT ![c] = "send"]
                /\ UNCHANGED lockvars
    /\ UNCHANGED <<methods, reg, frame, handler, reply, nread, lookups, invoked, sawHung, closedBy>>
    /\ UNCHANGED obsvars
    /\ UNCHANGED listed

\* the handler future never completes
HandlerHang(c) ==
    /\ pc[c] = "invoke"
    /\ MayHang(handler[c])
    /\ pc' = [pc EXCEPT ![c] = "hung"]
    /\ UNCHANGED <<methods, reg>>
    /\ UNCHANGED lockvars
    /\ UNCHANGED connvars
    /\ UNCHANGED obsvars
    /\ UNCHANGED listed

\* the handler future panics: nothing between the handler and the connection
\* task catches the unwinding, so it leaves handle_request, process_message
\* and handle_socket, drops the read guard when the notification branch holds
\* it, and ends the connection task with its socket
HandlerPanic(c) ==
    /\ pc[c] = "invoke"
    /\ MayPanic(handler[c])
    /\ outcome' = [outcome EXCEPT ![c] = Panicked]
    /\ closedBy' = [closedBy EXCEPT ![c] = "panic"]
    /\ LET g == AfterReadRelease(c) IN
        /\ SetLock(g)
        /\ pc' = PcAfter(c, "closed", g)
    /\ UNCHANGED <<methods, reg, frame, handler, ret, reply, nread, lookups, invoked, sawHung>>
    /\ UNCHANGED obsvars
    /\ UNCHANGED listed

(***************************************************************************)
(* handle_socket and process_message (presentation/handler.rs)             *)
(***************************************************************************)
\* connections that share their per-frame state: a frame read on one resets
\* what was sent on all
StartFrame_SharedReply(c, f) ==
    /\ frame' = [frame EXCEPT ![c] = f]
    /\ nread' = [nread EXCEPT ![c] = @ + 1]
    /\ reply' = [d \in Conns |-> <<>>]
    /\ handler' = [handler EXCEPT ![c] = NoHandler]
    /\ lookups' = [lookups EXCEPT ![c] = 0]
    /\ invoked' = [invoked EXCEPT ![c] = <<>>]
    /\ sawHung' = [sawHung EXCEPT ![c] = \E d \in Conns \ {c} : pc[d] = "hung"]
    /\ outcome' = [outcome EXCEPT ![c] = NoOutcome]

\* state of a connection when receiver.next() yields a frame
StartFrame(c, f) ==
    /\ frame' = [frame EXCEPT ![c] = f]
    /\ nread' = [nread EXCEPT ![c] = @ + 1]
    /\ reply' = [reply EXCEPT ![c] = <<>>]
    /\ handler' = [handler EXCEPT ![c] = NoHandler]
    /\ lookups' = [lookups EXCEPT ![c] = 0]
    /\ invoked' = [invoked EXCEPT ![c] = <<>>]
    /\ sawHung' = [sawHung EXCEPT ![c] = \E d \in Conns \ {c} : pc[d] = "hung"]
    /\ outcome' = [outcome EXCEPT ![c] = NoOutcome]

RECURSIVE SumOver(_, _)
SumOver(f, S) == IF S = {} THEN 0 ELSE LET x == CHOOSE y \in S : TRUE IN f[x] + SumOver(f, S \ {x})

\* frames read so far on all connections
TotalRead == SumOver(nread, Conns)

\* a loop that reads the next frame while the answer to the previous one is
\* still to be sent
CanRecv_BeforeSend(c) == pc[c] \in {"recv", "send"} /\ TotalRead < MaxFrames

\* a loop that reads the next frame while the handler of the previous one is
\* still running
CanRecv_WhileInvoking(c) == pc[c] \in {"recv", "invoke"} /\ TotalRead < MaxFrames

\* the loop is at receiver.next().await and the peer has a frame to send
CanRecv(c) == pc[c] = "recv" /\ TotalRead < MaxFrames

\* Ok(Message::Text(text)): parse, then enter handle_request
RecvText(c, t) ==
    /\ CanRecv(c)
    /\ StartFrame(c, TextFrame(t))
    /\ LET p == ParseRequest(t) IN
       IF p[1] = "err"
       THEN /\ ret' = [ret EXCEPT ![c] = NotCalled]
            /\ pc' = [pc EXCEPT ![c] = "send"]
       ELSE /\ ret' = [ret EXCEPT ![c] = HandleRequestEntry(p[2])]
            /\ pc' = [pc EXCEPT ![c] = IF HandleRequestEntry(p[2]) = Pending THEN "read" ELSE "send"]
    /\ UNCHANGED <<methods, reg, closedBy>>
    /\ UNCHANGED lockvars
    /\ Record
    /\ UNCHANGED listed

\* Ok(Message::Binary(_))
RecvBinary(c) ==
    /\ CanRecv(c)
    /\ StartFrame(c, [kind |-> "binary"])
    /\ ret' = [ret EXCEPT ![c] = NotCalled]
    /\ pc' = [pc EXCEPT ![c] = "send"]
    /\ UNCHANGED <<methods, reg, closedBy>>
    /\ UNCHANGED lockvars
    /\ Record
    /\ UNCHANGED listed

\* Ok(Message::Ping(data))
RecvPing(c, d) ==
    /\ CanRecv(c)
    /\ StartFrame(c, [kind |-> "ping", data |-> d])
    /\ ret' = [ret EXCEPT ![c] = NotCalled]
    /\ pc' = [pc EXCEPT ![c] = "send"]
    /\ UNCHANGED <<methods, reg, closedBy>>
    /\ UNCHANGED lockvars
    /\ Record
    /\ UNCHANGED listed

\* Ok(Message::Pong(_))
RecvPong(c, d) ==
    /\ CanRecv(c)
    /\ StartFrame(c, [kind |-> "pong", data |-> d])
    /\ ret' = [ret EXCEPT ![c] = NotCalled]
    /\ pc' = [pc EXCEPT ![c] = "recv"]
    /\ UNCHANGED <<methods, reg, closedBy>>
    /\ UNCHANGED lockvars
    /\ Record
    /\ UNCHANGED listed

\* Ok(Message::Close(_)), Err(e)
RecvCloseOrError(c, k) ==
    /\ CanRecv(c)
    /\ StartFrame(c, [kind |-> k])
    /\ ret' = [ret EXCEPT ![c] = NotCalled]
    /\ pc' = [pc EXCEPT ![c] = "closed"]
    /\ closedBy' = [closedBy EXCEPT ![c] = k]
    /\ UNCHANGED <<methods, reg>>
    /\ UNCHANGED lockvars
    /\ Record
    /\ UNCHANGED listed

\* receiver.next() yields None: the while-let loop ends
StreamEnd(c) ==
    /\ pc[c] = "recv"
    /\ pc' = [pc EXCEPT ![c] = "closed"]
    /\ closedBy' = [closedBy EXCEPT ![c] = "eof"]
    /\ UNCHANGED <<methods, reg>>
    /\ UNCHANGED lockvars
    /\ UNCHANGED framevars
    /\ UNCHANGED obsvars
    /\ UNCHANGED listed

\* the String process_message returns for the outcome of handle_request
OutcomeToJson(r) == IF r[2] = "Ok" THEN ResponseToJson(r[3]) ELSE ErrorResponseToJson(r[3])

\* a loop that answers a ping with a pong of its own, without the payload
OutFrame_EmptyPong(c) ==
    CASE frame[c].kind = "text" ->
            TextFrame(IF ret[c] = NotCalled
                      THEN CreateParseError(<<"Invalid JSON: ", "serde_json::Error">>)
                      ELSE OutcomeToJson(ret[c]))
      [] frame[c].kind = "binary" -> TextFrame(CreateParseError(<<"Binary messages not supported">>))
      [] frame[c].kind = "ping" -> PongFrame("")

\* the frame the loop is about to send for the current inbound frame
OutFrame(c) ==
    CASE frame[c].kind = "text" ->
            TextFrame(IF ret[c] = NotCalled
                      THEN CreateParseError(<<"Invalid JSON: ", "serde_json::Error">>)
                      ELSE OutcomeToJson(ret[c]))
      [] frame[c].kind = "binary" -> TextFrame(CreateParseError(<<"Binary messages not supported">>))
      [] frame[c].kind = "ping" -> PongFrame(frame[c].data)

\* a loop that goes on after the answer to a binary frame
LoopAfterSend_BinaryContinues(kind, sent) == IF sent THEN StillOpen ELSE "sendfail"

\* a loop that goes on after a failed send
LoopAfterSend_IgnoreFailure(kind, sent) == IF kind = "binary" THEN "binary" ELSE StillOpen

\* what the loop does once sender.send(..).await has returned for a frame of the
\* given kind: StillOpen when it goes on to the next frame, else the break
\* taken. The result of the send is discarded for a binary frame.
LoopAfterSend(kind, sent) ==
    IF kind = "binary" THEN "binary"
    ELSE IF sent THEN StillOpen
    ELSE "sendfail"

\* a loop that writes the frame twice
Send_Duplicate(c) ==
    /\ pc[c] = "send"
    /\ reply' = [reply EXCEPT ![c] = Append(Append(@, OutFrame(c)), OutFrame(c))]
    /\ LET l == LoopAfterSend(frame[c].kind, TRUE) IN
        /\ pc' = [pc EXCEPT ![c] = IF l = StillOpen THEN "recv" ELSE "closed"]
        /\ closedBy' = [closedBy EXCEPT ![c] = l]
    /\ UNCHANGED <<methods, reg, frame, handler, ret, nread, lookups, invoked, sawHung, outcome>>
    /\ UNCHANGED lockvars
    /\ Record
    /\ UNCHANGED listed

\* sender.send(..).await succeeds
Send(c) ==
    /\ pc[c] = "send"
    /\ reply' = [reply EXCEPT ![c] = Append(@, OutFrame(c))]
    /\ LET l == LoopAfterSend(frame[c].kind, TRUE) IN
        /\ pc' = [pc EXCEPT ![c] = IF l = StillOpen THEN "recv" ELSE "closed"]
        /\ closedBy' = [closedBy EXCEPT ![c] = l]
    /\ UNCHANGED <<methods, reg, frame, handler, ret, nread, lookups, invoked, sawHung, outcome>>
    /\ UNCHANGED lockvars
    /\ Record
    /\ UNCHANGED listed

\* sender.send(..).await fails
SendFail(c) ==
    /\ pc[c] = "send"
    /\ LET l == LoopAfterSend(frame[c].kind, FALSE) IN
        /\ pc' = [pc EXCEPT ![c] = IF l = StillOpen THEN "recv" ELSE "closed"]
        /\ closedBy' = [closedBy EXCEPT ![c] = l]
    /\ UNCHANGED <<methods, reg>>
    /\ UNCHANGED lockvars
    /\ UNCHANGED framevars
    /\ UNCHANGED obsvars
    /\ UNCHANGED listed

\* an encoding failure after which process_message returns nothing to send
EncodeFail_Dropped(c) ==
    /\ pc[c] = "send"
    /\ frame[c].kind = "text"
    /\ ret[c][1] = "Some"
    /\ pc' = [pc EXCEPT ![c] = "recv"]
    /\ UNCHANGED <<methods, reg>>
    /\ UNCHANGED lockvars
    /\ UNCHANGED connvars
    /\ UNCHANGED obsvars
    /\ UNCHANGED listed

\* serde_json::to_string(&success) or to_string(&error) returns Err: the
\* closure of unwrap_or_else yields create_internal_error() as the String
\* process_message returns
EncodeFail(c) ==
    /\ pc[c] = "send"
    /\ frame[c].kind = "text"
    /\ ret[c][1] = "Some"
    /\ pc' = [pc EXCEPT ![c] = "sendfallback"]
    /\ UNCHANGED <<methods, reg>>
    /\ UNCHANGED lockvars
    /\ UNCHANGED connvars
    /\ UNCHANGED obsvars
    /\ UNCHANGED listed

\* sender.send(..).await succeeds for the String of create_internal_error()
SendFallback(c) ==
    /\ pc[c] = "sendfallback"
    /\ reply' = [reply EXCEPT ![c] = Append(@, TextFrame(CreateInternalError))]
    /\ LET l == LoopAfterSend(frame[c].kind, TRUE) IN
        /\ pc' = [pc EXCEPT ![c] = IF l = StillOpen THEN "recv" ELSE "closed"]
        /\ closedBy' = [closedBy EXCEPT ![c] = l]
    /\ UNCHANGED <<methods, reg, frame, handler, ret, nread, lookups, invoked, sawHung, outcome>>
    /\ UNCHANGED lockvars
    /\ Record
    /\ UNCHANGED listed

(***************************************************************************)
(* Specifications                                                          *)
(***************************************************************************)
\* steps of the registering tasks; the application registers a handler of H
RegNext(H) ==
    \/ \E t \in SpawnedTasks : SpawnedRegister(t)
    \/ \E r \in AppRegs, name \in AppRegNames, h \in H : AppRegister(r, name, h)
    \/ \E t \in SpawnedTasks \cup AppRegs : RegisterInsert(t)

\* steps of the connection tasks CS on text frames, the peers sending Docs
TextNext(CS, Docs) ==
    \/ \E c \in CS, t \in Docs : RecvText(c, t)
    \/ \E c \in CS : AcquireRead(c)
    \/ \E c \in CS : Lookup(c)
    \/ \E c \in CS : HandlerReturn(c)
    \/ \E c \in CS : HandlerHang(c)
    \/ \E c \in CS : Send(c)

\* steps of the connection tasks CS on the other frames, and the ends of the
\* loop: a failed send, the end of the inbound stream
ControlNext(CS) ==
    \/ \E c \in CS : RecvBinary(c)
    \/ \E c \in CS, d \in PingPayloads : RecvPing(c, d)
    \/ \E c \in CS, d \in PingPayloads : RecvPong(c, d)
    \/ \E c \in CS, k \in {"close", "error"} : RecvCloseOrError(c, k)
    \/ \E c \in CS : StreamEnd(c)
    \/ \E c \in CS : SendFail(c)

\* The dispatcher under concurrency: the constructor's four tasks, one
\* registration by the application and two connections that stay open and
\* exchange text frames, under every interleaving.
Next == RegNext({"h1"}) \/ TextNext(Conns, ConcDocs)

Spec == Init /\ [][Next]_vars

\* One connection served while no registration is in progress: the registry
\* is any one the registrations can have built (each spawned task done or not
\* yet run, the application's registration done before them, after them or
\* not at all), and the peer sends any text.
SeqRegNames == AppRegNames \cup {"echo", "rpc.internal"}

SeqInit ==
    \E S \in SUBSET BuiltinNames, a \in {NoHandler} \cup AppHandlers, n \in SeqRegNames, last \in BOOLEAN :
        /\ (a = NoHandler) => (last /\ n = CHOOSE x \in SeqRegNames : TRUE)
        /\ methods = (IF a = NoHandler \/ (~last /\ n \in S)
                      THEN [k \in S |-> k]
                      ELSE Insert([k \in S |-> k], n, a))
        /\ rw_readers = {}
        /\ rw_writer = NoTask
        /\ rw_queue = <<>>
        /\ pc = [t \in Tasks |-> IF t \in Conns THEN "recv"
                                 ELSE IF t \in SpawnedTasks THEN (IF t \in S THEN "done" ELSE "spawned")
                                 ELSE IF a = NoHandler \/ t \notin AppRegs THEN "idle" ELSE "done"]
        /\ reg = [t \in RegTasks |->
                    IF t \in SpawnedTasks THEN [name |-> t, h |-> t]
                    ELSE IF a = NoHandler \/ t \in LaterRegs THEN [name |-> "", h |-> NoHandler]
                    ELSE [name |-> n, h |-> a]]
        /\ frame = [c \in Conns |-> NoFrame]
        /\ handler = [c \in Conns |-> NoHandler]
        /\ ret = [c \in Conns |-> NotCalled]
        /\ reply = [c \in Conns |-> <<>>]
        /\ nread = [c \in Conns |-> 0]
        /\ lookups = [c \in Conns |-> 0]
        /\ invoked = [c \in Conns |-> <<>>]
        /\ sawHung = [c \in Conns |-> FALSE]
        /\ outcome = [c \in Conns |-> NoOutcome]
        /\ closedBy = [c \in Conns |-> StillOpen]
        /\ listed = [l \in Listers |-> <<>>]
    /\ tapped = {}
        /\ wire = [c \in Conns |-> <<>>]

SeqNext == TextNext({"c1"}, TextDocs) \/ ControlNext({"c1"})

SeqSpec == SeqInit /\ [][SeqNext]_vars

\* Two connections observed on the wire, served by a registry that holds the
\* built-ins and one application handler: the peers send text frames of every
\* class (not JSON, invalid, call, notification) and every other kind of
\* frame, sends fail, streams end, and the application handler may panic.
ConnDocs ==
    {Malformed,
     Doc("1.0", "ping", None, Some(JInt(1))),
     Doc("2.0", "echo", Some(JObj([msg |-> JStr("hi")])), Some(JInt(7))),
     Doc("2.0", "slow", None, Some(JInt(1))),
     Doc("2.0", "slow", None, None)}

ConnInit ==
    /\ methods = Insert([k \in BuiltinNames |-> k], "slow", "h1")
    /\ rw_readers = {}
    /\ rw_writer = NoTask
    /\ rw_queue = <<>>
    /\ pc = [t \in Tasks |-> IF t \in Conns THEN "recv"
                             ELSE IF t \in SpawnedTasks \cup AppRegs THEN "done"
                             ELSE "idle"]
    /\ reg = [t \in RegTasks |->
                IF t \in SpawnedTasks THEN [name |-> t, h |-> t]
                ELSE IF t \in AppRegs THEN [name |-> "slow", h |-> "h1"]
                ELSE [name |-> "", h |-> NoHandler]]
    /\ frame = [c \in Conns |-> NoFrame]
    /\ handler = [c \in Conns |-> NoHandler]
    /\ ret = [c \in Conns |-> NotCalled]
    /\ reply = [c \in Conns |-> <<>>]
    /\ nread = [c \in Conns |-> 0]
    /\ lookups = [c \in Conns |-> 0]
    /\ invoked = [c \in Conns |-> <<>>]
    /\ sawHung = [c \in Conns |-> FALSE]
    /\ outcome = [c \in Conns |-> NoOutcome]
    /\ closedBy = [c \in Conns |-> StillOpen]
    /\ listed = [l \in Listers |-> <<>>]
    /\ tapped = Conns
    /\ wire = [c \in Conns |-> <<>>]

\* steps in which a handler panics
PanicNext(CS) == \E c \in CS : HandlerPanic(c)

ConnNext == TextNext(Conns, ConnDocs) \/ ControlNext(Conns) \/ PanicNext(Conns)

ConnSpec == ConnInit /\ [][ConnNext]_vars

\* the id member a peer writes: absent, null, an integer, a float, strings
CodecIds == {None, Some(JNull), Some(JInt(7)), Some(JFloat(7)), Some(JStr("7")), Some(JStr(""))}

\* the texts of a peer whose frames draw every kind of response: successes,
\* and errors of each origin, under ids of each type
CodecDocs ==
    {Malformed}
    \cup {Doc("2.0", m, None, i) : m \in {"echo", "nope", "slow", "add"}, i \in CodecIds}
    \cup {Doc("1.0", "echo", None, i) : i \in CodecIds}

FallbackNext(CS) ==
    \/ \E c \in CS : EncodeFail(c)
    \/ \E c \in CS : SendFallback(c)

\* Two connections on the settled registry of ConnInit, over a transport
\* that delivers, where the encoding of any response may fail.
FaultNext == TextNext(Conns, ConnDocs) \/ FallbackNext(Conns)

FaultSpec == ConnInit /\ [][FaultNext]_vars

\* One connection on the settled registry of ConnInit, its peer sending
\* CodecDocs, where the encoding of a response may fail.
CodecNext == TextNext({"c1"}, CodecDocs) \/ FallbackNext({"c1"})

CodecSpec == ConnInit /\ [][CodecNext]_vars

\* steps of the later calls of the application: the second registration of a
\* name, and two list_methods calls one after the other, the map iterating in
\* one order
LaterNext ==
    \/ AppRegisterAgain("r2", "r1", "h2")
    \/ \E t \in LaterRegs : RegisterInsert(t)
    \/ ListAcquire("l1", NoTask)
    \/ ListAcquire("l2", "l1")
    \/ \E l \in Listers : ListCollect(l, FALSE)

\* The state once the four tasks of the constructor have run: the built-ins
\* are registered, the application has registered nothing yet, and the
\* connections are open.
RegistryInit ==
    /\ methods = [k \in BuiltinNames |-> k]
    /\ rw_readers = {}
    /\ rw_writer = NoTask
    /\ rw_queue = <<>>
    /\ pc = [t \in Tasks |-> IF t \in Conns THEN "recv"
                             ELSE IF t \in SpawnedTasks THEN "done"
                             ELSE "idle"]
    /\ reg = [t \in RegTasks |-> IF t \in SpawnedTasks THEN [name |-> t, h |-> t] ELSE [name |-> "", h |-> NoHandler]]
    /\ frame = [c \in Conns |-> NoFrame]
    /\ handler = [c \in Conns |-> NoHandler]
    /\ ret = [c \in Conns |-> NotCalled]
    /\ reply = [c \in Conns |-> <<>>]
    /\ nread = [c \in Conns |-> 0]
    /\ lookups = [c \in Conns |-> 0]
    /\ invoked = [c \in Conns |-> <<>>]
    /\ sawHung = [c \in Conns |-> FALSE]
    /\ outcome = [c \in Conns |-> NoOutcome]
    /\ closedBy = [c \in Conns |-> StillOpen]
    /\ listed = [l \in Listers |-> <<>>]
    /\ tapped = {}
    /\ wire = [c \in Conns |-> <<>>]

\* steps of the first registration of the application
FirstNext ==
    \/ \E r \in AppRegs, name \in AppRegNames : AppRegister(r, name, "h1")
    \/ \E t \in AppRegs : RegisterInsert(t)

\* The registry in the hands of the application: it registers a name, registers
\* it again, and lists the methods twice, while two connections dispatch
\* calls and notifications, under every interleaving.
RegistryNext == FirstNext \/ LaterNext \/ TextNext(Conns, ConcDocs)

RegistrySpec == RegistryInit /\ [][RegistryNext]_vars

\* steps of two list_methods calls, one after the other, the map iterating in
\* any order
ListNext ==
    \/ ListAcquire("l1", NoTask)
    \/ ListAcquire("l2", "l1")
    \/ \E l \in Listers : ListCollect(l, TRUE)

\* The service from its construction: the four tasks of the constructor and a
\* registration of the application race with two list_methods calls.
ListSpec == Init /\ [][RegNext({"h1"}) \/ ListNext]_vars

\* the texts of a peer that probes validate(): every combination of these
\* versions, method names, params and ids
ValidateVersions == {"2.0", "1.0", "2", "2.00", ""}

ValidateMethods ==
    {"echo", "test.method", "nope", "", "rpc", "rpc.", "rpc.internal", "rpc.reserved",
     "rpcx", "RPC.x", "Rpc.internal", "xrpc.y"}

ValidateDocs ==
    {Doc(v, m, p, i) : v \in ValidateVersions, m \in ValidateMethods, p \in FrameParams, i \in FrameIds}

\* One connection on the registry of the built-ins, its peer sending
\* ValidateDocs.
ValidateNext ==
    \/ \E t \in ValidateDocs : RecvText("c1", t)
    \/ AcquireRead("c1")
    \/ Lookup("c1")
    \/ HandlerReturn("c1")
    \/ Send("c1")

ValidateSpec == RegistryInit /\ [][ValidateNext]_vars

\* the steps of a connection task whose handlers all return
ServeStep(c) == AcquireRead(c) \/ Lookup(c) \/ HandlerReturn(c) \/ Send(c)

\* names validate() rejects and register_method accepts
ReservedRegNames == {"", "rpc.", "rpc.internal"}

\* calls and notifications to those names and to a built-in, under the
\* version validate() accepts and one it rejects
ReservedDocs ==
    {Doc(v, m, None, i) : v \in {"2.0", "1.0"}, m \in ReservedRegNames \cup {"echo"},
                          i \in {None, Some(JInt(1))}}

ReservedNext ==
    \/ \E r \in AppRegs, name \in ReservedRegNames : AppRegister(r, name, "h1")
    \/ \E t \in AppRegs : RegisterInsert(t)
    \/ \E t \in ReservedDocs : RecvText("c1", t)
    \/ ServeStep("c1")

\* The application registers a handler under a name validate() rejects while
\* a connection sends calls and notifications to that name.
ReservedSpec == RegistryInit /\ [][ReservedNext]_vars

\* calls to the built-in names
OverrideDocs == {Doc("2.0", m, None, Some(JInt(1))) : m \in BuiltinNames}

OverrideNext ==
    \/ \E t \in SpawnedTasks : SpawnedRegister(t)
    \/ \E r \in AppRegs, name \in BuiltinNames : AppRegister(r, name, "h1")
    \/ \E t \in SpawnedTasks \cup AppRegs : RegisterInsert(t)
    \/ TextNext({"c1"}, OverrideDocs)

\* The service from its construction: the application registers its own
\* handler under a built-in name while the four tasks of the constructor are
\* scheduled at any time, and a connection calls the built-in names.
OverrideSpec == Init /\ [][OverrideNext]_vars

\* calls and notifications to two of the built-ins
LiveDocs == {Doc("2.0", m, None, i) : m \in {"echo", "ping"}, i \in {None, Some(JInt(1))}}

LiveNext ==
    \/ \E t \in SpawnedTasks : SpawnedRegister(t)
    \/ \E t \in SpawnedTasks : RegisterInsert(t)
    \/ \E t \in LiveDocs : RecvText("c1", t)
    \/ ServeStep("c1")

\* the runtime polls every spawned task that can make progress, and the
\* connection task likewise; a handler future that is awaited completes
Fairness ==
    /\ \A t \in SpawnedTasks : WF_vars(SpawnedRegister(t)) /\ WF_vars(RegisterInsert(t))
    /\ WF_vars(ServeStep("c1"))

\* The service from its construction under a fair scheduler: the four tasks
\* of the constructor run while a connection sends calls and notifications
\* whose handlers return.
LiveSpec == Init /\ [][LiveNext]_vars /\ Fairness

\* the values a peer puts in the params of add: numbers written as integers
\* and as floats, and values that are not numbers
AddNumbers == {JInt(2), JInt(3), JInt(0 - 4), JFloat(2)}

AddOthers == {JStr("x"), JNull}

AddElements == AddNumbers \cup AddOthers

\* the params member of a call of add: absent, null, values that are not
\* arrays, and the arrays of up to three elements
AddParams ==
    {None, Some(JNull), Some(JInt(5)), Some(JStr("2,3")), Some(JObj([a |-> JInt(2), b |-> JInt(3)]))}
    \cup {Some(JArr(<<>>))}
    \cup {Some(JArr(<<x>>)) : x \in AddElements}
    \cup {Some(JArr(<<x, y>>)) : x \in AddElements, y \in AddElements}
    \cup {Some(JArr(<<x, y, z>>)) : x \in {JInt(2), JStr("x")}, y \in {JInt(3), JStr("x")}, z \in {JInt(4), JStr("x")}}

AddDocs == {Doc("2.0", "add", p, i) : p \in AddParams, i \in {Some(JInt(7)), Some(JInt(1))}}

\* One connection on the registry of the built-ins, its peer calling add.
AddNext ==
    \/ \E t \in AddDocs : RecvText("c1", t)
    \/ AcquireRead("c1")
    \/ Lookup("c1")
    \/ HandlerReturn("c1")
    \/ Send("c1")

AddSpec == RegistryInit /\ [][AddNext]_vars

\* the params member of a call of echo: absent, null, and a value of each
\* JSON type
EchoParams ==
    {None, Some(JNull), Some(JBool(FALSE)), Some(JInt(5)), Some(JStr("hi")),
     Some(JArr(<<JInt(1), JStr("x")>>)),
     Some(JObj([message |-> JStr("hello")])),
     Some(JObj([test |-> JStr("value")]))}

EchoDocs == {Doc("2.0", "echo", p, i) : p \in EchoParams, i \in {Some(JInt(1)), Some(JInt(7)), Some(JStr("a"))}}

\* One connection on the registry of the built-ins, its peer calling echo.
EchoNext ==
    \/ \E t \in EchoDocs : RecvText("c1", t)
    \/ AcquireRead("c1")
    \/ Lookup("c1")
    \/ HandlerReturn("c1")
    \/ Send("c1")

EchoSpec == RegistryInit /\ [][EchoNext]_vars


(***************************************************************************)
(* Properties                                                              *)
(***************************************************************************)
\* connection c is processing, or has processed, a text frame that parsed
ParsedText(c) == frame[c].kind = "text" /\ ParseRequest(frame[c].text)[1] = "ok"

\* the JSON object of the text frame of connection c has member k
HasMember(c, k) == frame[c].kind = "text" /\ frame[c].text[1] = "obj" /\ k \in DOMAIN frame[c].text[2]

\* handle_request returned Some(Err(..)) with the given code to connection c
ReturnedError(c, code) == ret[c][1] = "Some" /\ ret[c][2] = "Err" /\ ret[c][3].error.code = code

\* the id member of the i-th frame sent for the current frame of c
ReplyId(c, i) == reply[c][i].text[2]["id"]

\* C1: every outcome handle_request returns for a request carrying an id
\* (InvalidRequest, MethodNotFound, handler error, success) carries exactly
\* that request's id, in the outcome and in the frame sent for it.
C1_IdEchoed ==
    \A c \in Conns :
        (ParsedText(c) /\ ret[c][1] = "Some" /\ Req(c).id # None)
        => /\ ret[c][3].id = Req(c).id[1]
           /\ \A i \in 1..Len(reply[c]) : ReplyId(c, i) = Req(c).id[1]

\* two connections hold outcomes at once, a success and an error, each with the
\* id of its own request, and the ids differ
C1_Witness ==
    \E c, d \in Conns :
        /\ ParsedText(c) /\ ParsedText(d)
        /\ ret[c][1] = "Some" /\ ret[c][2] = "Ok" /\ ret[c][3].id = JInt(7)
        /\ ReturnedError(d, MethodNotFound) /\ ret[d][3].id = JInt(1)
        /\ Len(reply[c]) = 1 /\ Len(reply[d]) = 1

\* C2 as stated: for every request without an id, whatever its other fields,
\* handle_request returns None and nothing is sent.
C2_AbsentIdNoResponse ==
    \A c \in Conns :
        (ParsedText(c) /\ Req(c).id = None)
        => /\ ret[c] \in {Pending, RetNone}
           /\ pc[c] # "send"
           /\ reply[c] = <<>>

\* C2 amended: for every request without an id that passes validate(),
\* handle_request returns None, whether the handler is registered, absent,
\* succeeds or fails, and nothing is sent; a request without an id that fails
\* validate() is answered with an InvalidRequest error whose id is null.
C2_ValidNotificationNoResponse ==
    \A c \in Conns :
        (ParsedText(c) /\ Req(c).id = None)
        => IF Req(c).jsonrpc = "2.0" /\ Req(c).method # "" /\ Req(c).method # "rpc.internal"
           THEN /\ ret[c] \in {Pending, RetNone}
                /\ pc[c] # "send"
                /\ reply[c] = <<>>
                /\ (pc[c] \in {"recv", "closed"} => ret[c] = RetNone)
           ELSE /\ ReturnedError(c, InvalidRequest)
                /\ ret[c][3].id = JNull

\* a notification whose handler was invoked has been processed: None was
\* returned and nothing was sent
C2_Witness ==
    \E c \in Conns :
        /\ ParsedText(c) /\ Req(c).id = None /\ Validate(Req(c)) = <<"ok">>
        /\ invoked[c] # <<>>
        /\ pc[c] = "recv" /\ ret[c] = RetNone /\ reply[c] = <<>>

\* C3: after JsonRpcService::new() has returned (every state of the model), no
\* call of echo, ping, add or getServerInfo returns MethodNotFound.
C3_BuiltinsRegistered ==
    \A c \in Conns :
        (ParsedText(c) /\ ReturnedError(c, MethodNotFound)) => Req(c).method \notin BuiltinNames

\* C4: a task executing a handler body for handle_request, for a call or a
\* notification, holds neither the read nor the write guard of the registry.
C4_NoLockWhileInvoking ==
    \A c \in Conns : pc[c] \in {"invoke", "hung"} => (c \notin rw_readers /\ rw_writer # c)

\* C5: a register_method call completes even when an in-flight handler never
\* returns; so no register_method call ever waits for a guard that a
\* never-returning handler's task holds.
C5_RegistrationCompletes ==
    \A t \in SpawnedTasks \cup AppRegs :
        pc[t] = "waiting" => ~(\E c \in Conns : pc[c] = "hung" /\ c \in rw_readers)

\* C6: when a handler invoked for one connection never returns, a valid call to
\* a registered method received afterwards on another connection is still
\* dispatched and answered; so it never waits for the registry behind a guard
\* that the never-returning handler's task holds.
C6_OtherConnectionServed ==
    \A c \in Conns :
        (/\ sawHung[c]
         /\ ParsedText(c)
         /\ Req(c).id # None
         /\ Validate(Req(c)) = <<"ok">>
         /\ Req(c).method \in DOMAIN methods
         /\ pc[c] = "waiting")
        => ~(\E d \in Conns \ {c} : pc[d] = "hung" /\ d \in rw_readers)

\* C7: a text frame with "id": null, version "2.0" and a registered method is a
\* call: once processed it has been answered with exactly one response, whose
\* id is null.
C7_NullIdIsCall ==
    \A c \in Conns :
        (/\ HasMember(c, "id")
         /\ frame[c].text[2]["id"] = JNull
         /\ frame[c].text[2]["jsonrpc"] = JStr("2.0")
         /\ frame[c].text[2]["method"][2] \in DOMAIN methods
         /\ pc[c] = "recv")
        => /\ Len(reply[c]) = 1
           /\ ReplyId(c, 1) = JNull

\* C8: every call (a request with an id member) a connection handler has
\* processed, its handler having returned and the send having succeeded, was
\* answered with exactly one response on that connection.
C8_CallAnsweredOnce ==
    \A c \in Conns :
        /\ Len(reply[c]) <= 1
        /\ (ParsedText(c) /\ HasMember(c, "id") /\ pc[c] = "recv") => Len(reply[c]) = 1

\* the id, or null, of the JSON object of the text frame of c
WireIdOrNull(c) == IF HasMember(c, "id") THEN frame[c].text[2]["id"] ELSE JNull

\* C9: when validate() fails, handle_request returns Some(Err) with code -32600
\* and the request's id, or null without one, and makes no registry lookup;
\* Scenario C (version "1.0", id 1) and Scenario E (method "rpc.internal") both
\* give -32600.
C9_InvalidRequest ==
    \A c \in Conns :
        /\ (ParsedText(c) /\ Validate(Req(c))[1] = "err")
            => /\ ReturnedError(c, -32600)
               /\ ret[c][3].id = WireIdOrNull(c)
               /\ ret[c][3].error.message = Validate(Req(c))[2]
               /\ lookups[c] = 0 /\ invoked[c] = <<>>
               /\ pc[c] \in {"send", "recv", "closed"}
               /\ c \notin rw_readers
        /\ (frame[c] = TextFrame(Doc("1.0", "ping", None, Some(JInt(1)))))
            => (ReturnedError(c, -32600) /\ ret[c][3].id = JInt(1) /\ lookups[c] = 0)
        /\ (frame[c] = TextFrame(Doc("2.0", "rpc.internal", None, Some(JInt(1)))))
            => (ReturnedError(c, -32600) /\ lookups[c] = 0)

\* Scenario E has been answered while a handler is registered under the
\* reserved name
C9_Witness ==
    \E c \in Conns :
        /\ frame[c] = TextFrame(Doc("2.0", "rpc.internal", None, Some(JInt(1))))
        /\ "rpc.internal" \in DOMAIN methods
        /\ Len(reply[c]) = 1
        /\ reply[c][1].text[2]["error"][2]["code"] = JInt(-32600)

\* a valid call of connection c is at its lookup
AtLookupOfCall(c) == pc[c] = "locked" /\ Req(c).id # None

\* C10: a valid call whose method has no registry entry at the moment of the
\* lookup returns an error response with code -32601, the message
\* "Method '<name>' not found" and the request's id, and invokes no handler.
C10_MethodNotFound ==
    /\ [][\A c \in Conns :
            (AtLookupOfCall(c) /\ Req(c).method \notin DOMAIN methods /\ pc'[c] # "locked")
            => /\ ret'[c][1] = "Some" /\ ret'[c][2] = "Err"
               /\ ret'[c][3].error = [code |-> -32601,
                                      message |-> <<"Method '", Req(c).method, "' not found">>,
                                      data |-> None]
               /\ ret'[c][3].id = Req(c).id[1]
               /\ invoked'[c] = <<>> /\ handler'[c] = NoHandler
               /\ pc'[c] = "send"]_vars
    /\ [](\A c \in Conns :
            (ParsedText(c) /\ ReturnedError(c, -32601))
            => /\ invoked[c] = <<>>
               /\ \A i \in 1..Len(reply[c]) :
                    reply[c][i].text[2]["error"][2]["message"] = JFmt(<<"Method '", Req(c).method, "' not found">>))

\* a call of echo made before the spawned registration of echo has run was
\* answered with MethodNotFound
C10_Witness ==
    \E c \in Conns :
        /\ ParsedText(c) /\ Req(c).method = "echo" /\ Req(c).id = Some(JInt(7))
        /\ ReturnedError(c, -32601)
        /\ invoked[c] = <<>>
        /\ Len(reply[c]) = 1

\* the JSON object of the i-th frame sent for the current frame of c
ReplyObj(c, i) == reply[c][i].text[2]

\* C11: when the handler of a call returns an error object, handle_request
\* returns an error response holding exactly that object and the request's id,
\* and the frame sent carries that code, message and data; the code is never
\* replaced by InternalError or any other.
C11_HandlerErrorPassesThrough ==
    \A c \in Conns :
        (ParsedText(c) /\ Req(c).id # None /\ outcome[c][1] = "err")
        => LET e == outcome[c][2] IN
           /\ ret[c] = <<"Some", "Err", [jsonrpc |-> "2.0", error |-> e, id |-> Req(c).id[1]]>>
           /\ \A i \in 1..Len(reply[c]) :
                LET w == ReplyObj(c, i)["error"][2] IN
                /\ DOMAIN ReplyObj(c, i) = {"jsonrpc", "error", "id"}
                /\ ReplyObj(c, i)["id"] = Req(c).id[1]
                /\ w["code"] = JInt(e.code)
                /\ w["message"] = JFmt(e.message)
                /\ IF e.data = None THEN "data" \notin DOMAIN w
                   ELSE "data" \in DOMAIN w /\ w["data"] = e.data[1]

\* the call of an application method whose handler failed with ServerError and
\* a data member has been answered with that error and the id 7
C11_Witness ==
    \E c \in Conns :
        /\ ParsedText(c) /\ Req(c).id = Some(JInt(7))
        /\ outcome[c] = <<"err", [code |-> -32000, message |-> <<"application failure">>, data |-> Some(JStr("h2"))]>>
        /\ Len(reply[c]) = 1
        /\ ReplyObj(c, 1)["error"][2]["code"] = JInt(-32000)
        /\ ReplyObj(c, 1)["error"][2]["data"] = JStr("h2")
        /\ ReplyObj(c, 1)["id"] = JInt(7)

\* C12: when the handler of a valid call returns a value, handle_request
\* returns Some(Ok(Response)) whose result is that value and whose id is the
\* request's, and the frame sent carries them; no success response is returned
\* or sent for a notification.
C12_HandlerValueReturned ==
    \A c \in Conns :
        /\ (ParsedText(c) /\ Req(c).id # None /\ outcome[c][1] = "ok")
            => /\ ret[c] = <<"Some", "Ok", [jsonrpc |-> "2.0", result |-> outcome[c][2], id |-> Req(c).id[1]]>>
               /\ \A i \in 1..Len(reply[c]) :
                    ReplyObj(c, i) = [jsonrpc |-> JStr("2.0"), result |-> outcome[c][2], id |-> Req(c).id[1]]
        /\ (ParsedText(c) /\ Req(c).id = None)
            => /\ ~(ret[c][1] = "Some" /\ ret[c][2] = "Ok")
               /\ \A i \in 1..Len(reply[c]) : "result" \notin DOMAIN ReplyObj(c, i)
        /\ (ret[c][1] = "Some" /\ ret[c][2] = "Ok")
            => (ParsedText(c) /\ Req(c).id # None /\ Validate(Req(c)) = <<"ok">> /\ outcome[c][1] = "ok")

\* the call of echo with params and the id 7 has been answered with its params
C12_Witness ==
    \E c \in Conns :
        /\ frame[c] = TextFrame(Doc("2.0", "echo", Some(JObj([msg |-> JStr("hi")])), Some(JInt(7))))
        /\ "echo" \in DOMAIN methods /\ methods["echo"] = "echo"
        /\ reply[c] = <<TextFrame(JObj([jsonrpc |-> JStr("2.0"), result |-> JObj([msg |-> JStr("hi")]), id |-> JInt(7)]))>>

\* C13: a handler that panics while serving a call is contained: the outcome is
\* an error response with code -32603 and the request's id, and the panic does
\* not end the connection.
C13_PanicContained ==
    \A c \in Conns :
        (ParsedText(c) /\ Req(c).id # None /\ outcome[c] = Panicked)
        => /\ ReturnedError(c, -32603)
           /\ ret[c][3].id = Req(c).id[1]
           /\ closedBy[c] # "panic"
           /\ pc[c] # "closed"

\* connection c is processing, or has processed, a text frame that is not a
\* Request
UndecodableText(c) == frame[c].kind = "text" /\ ParseRequest(frame[c].text)[1] = "err"

\* the outbound frame f is an error response with the given code and id null
IsErrorFrame(f, code) ==
    /\ f.kind = "text"
    /\ DOMAIN f.text[2] = {"jsonrpc", "error", "id"}
    /\ f.text[2]["error"][2]["code"] = JInt(code)
    /\ f.text[2]["id"] = JNull

\* C14: a text frame that cannot be decoded as a Request yields exactly one
\* error response with code -32700 and id null, without any call of the
\* dispatcher, and leaves the connection open: once the response is sent the
\* loop is back at reading frames; on the wire the response follows the frame
\* directly, whatever arrives next.
C14_ParseErrorAnswered ==
    \A c \in Conns :
        /\ UndecodableText(c)
            => /\ ret[c] = NotCalled /\ lookups[c] = 0 /\ invoked[c] = <<>>
               /\ c \notin rw_readers
               /\ pc[c] \in {"send", "recv", "closed"}
               /\ Len(reply[c]) <= 1
               /\ \A i \in 1..Len(reply[c]) : IsErrorFrame(reply[c][i], -32700)
               /\ (pc[c] = "send") = (reply[c] = <<>> /\ closedBy[c] = StillOpen)
               /\ (pc[c] = "recv") => (Len(reply[c]) = 1 /\ closedBy[c] = StillOpen)
               /\ (pc[c] = "closed") => closedBy[c] \in {"sendfail", "eof"}
               /\ (closedBy[c] = "eof") => Len(reply[c]) = 1
        /\ \A i \in 1..Len(wire[c]) :
              (/\ wire[c][i].dir = "in"
               /\ wire[c][i].frame.kind = "text"
               /\ ParseRequest(wire[c][i].frame.text)[1] = "err"
               /\ i < Len(wire[c]))
              => /\ wire[c][i + 1].dir = "out"
                 /\ wire[c][i + 1].n = wire[c][i].n
                 /\ IsErrorFrame(wire[c][i + 1].frame, -32700)
                 /\ \A j \in (i + 2)..Len(wire[c]) : wire[c][j].n > wire[c][i].n

\* Scenario D followed by a call on the same connection: the parse error was
\* sent, then the call of echo was read and answered with its result
C14_Witness ==
    \E c \in Conns :
        /\ Len(wire[c]) = 4
        /\ wire[c][1] = [dir |-> "in", n |-> 1, frame |-> TextFrame(Malformed)]
        /\ wire[c][2].dir = "out" /\ IsErrorFrame(wire[c][2].frame, -32700)
        /\ wire[c][3].dir = "in" /\ wire[c][3].frame.kind = "text" /\ wire[c][3].frame.text # Malformed
        /\ wire[c][4].dir = "out" /\ wire[c][4].n = 2
        /\ "result" \in DOMAIN wire[c][4].frame.text[2]
        /\ wire[c][4].frame.text[2]["id"] = JInt(7)

\* C15: on a binary frame the loop attempts one send of an error message with
\* code -32700 and id null, then ends whether or not the send succeeded; no
\* frame is read after the binary frame.
C15_BinaryTerminates ==
    /\ [](\A c \in Conns :
            frame[c].kind = "binary"
            => /\ pc[c] \in {"send", "closed"}
               /\ (pc[c] = "closed") = (closedBy[c] = "binary")
               /\ (pc[c] = "send") => reply[c] = <<>>
               /\ Len(reply[c]) <= 1
               /\ \A i \in 1..Len(reply[c]) :
                    /\ IsErrorFrame(reply[c][i], -32700)
                    /\ reply[c][i].text[2]["error"][2]["message"] = JFmt(<<"Binary messages not supported">>)
               /\ lookups[c] = 0 /\ invoked[c] = <<>>)
    /\ [][\A c \in Conns :
            frame[c].kind = "binary"
            => /\ frame'[c] = frame[c] /\ nread'[c] = nread[c]
               /\ (pc[c] = "send") => pc'[c] \in {"send", "closed"}
               /\ (pc[c] = "closed") => (pc'[c] = "closed" /\ reply'[c] = reply[c] /\ wire'[c] = wire[c])]_vars

\* one connection ended after its answer to a binary frame was sent, the other
\* after the send of that answer failed
C15_Witness ==
    \E c, d \in Conns :
        /\ frame[c].kind = "binary" /\ pc[c] = "closed" /\ Len(reply[c]) = 1
        /\ wire[c][Len(wire[c])].dir = "out"
        /\ frame[d].kind = "binary" /\ pc[d] = "closed" /\ reply[d] = <<>>

\* C16: when the send of a response or of a pong fails, the loop ends: the
\* frame is not sent again, and no further frame of the connection is read,
\* dispatched or answered.
C16_FailedSendTerminates ==
    /\ [](\A c \in Conns :
            closedBy[c] = "sendfail"
            => /\ pc[c] = "closed"
               /\ frame[c].kind \in {"text", "ping"}
               /\ reply[c] = <<>>
               /\ c \in tapped => wire[c][Len(wire[c])] = [dir |-> "in", n |-> nread[c], frame |-> frame[c]])
    /\ [][\A c \in Conns :
            /\ (pc[c] = "send" /\ frame[c].kind # "binary" /\ pc'[c] # "send" /\ reply'[c] = reply[c])
                => (pc'[c] = "closed" /\ closedBy'[c] = "sendfail")
            /\ (closedBy[c] = "sendfail")
                => /\ pc'[c] = "closed" /\ closedBy'[c] = "sendfail"
                   /\ frame'[c] = frame[c] /\ nread'[c] = nread[c] /\ reply'[c] = reply[c]
                   /\ lookups'[c] = lookups[c] /\ invoked'[c] = invoked[c] /\ ret'[c] = ret[c]
                   /\ wire'[c] = wire[c]]_vars

\* the send of a pong failed on one connection and the send of the response to
\* a call failed on the other while frames were still to be read
C16_Witness ==
    \E c, d \in Conns :
        /\ closedBy[c] = "sendfail" /\ frame[c].kind = "ping"
        /\ closedBy[d] = "sendfail" /\ ParsedText(d) /\ ret[d][1] = "Some" /\ ret[d][2] = "Ok"

\* C17: a connection is Open or Closed and Closed is final; it closes only on a
\* peer close frame, a transport error, a binary frame, a failed send or the
\* end of the inbound stream; after a text frame whose response was sent, a
\* ping whose pong was sent, or a pong, it is Open.
C17_ConnectionStates ==
    \A c \in Conns :
        /\ (pc[c] = "closed") = (closedBy[c] # StillOpen)
        /\ closedBy[c] \in {StillOpen, "close", "error", "binary", "sendfail", "eof"}
        /\ (closedBy[c] \in {"close", "error", "binary"}) => frame[c].kind = closedBy[c]
        /\ (frame[c].kind \in {"text", "ping"} /\ Len(reply[c]) = 1)
            => closedBy[c] \in {StillOpen, "eof"}
        /\ (frame[c].kind = "pong") => closedBy[c] \in {StillOpen, "eof"}

\* the response an invalid frame must get: the code of the error, or 0 when
\* the frame is a request that passes validate()
ExpectedErrorCode(f) ==
    IF f.kind # "text" THEN 0
    ELSE IF ParseRequest(f.text)[1] = "err" THEN -32700
    ELSE IF Validate(ParseRequest(f.text)[2])[1] = "err" THEN -32600
    ELSE 0

\* C18: within a connection frames are processed in arrival order: a frame is
\* read only once handle_request has returned for the previous one, and on the
\* wire every parse-error or validation-error response directly follows its
\* frame, before the next frame and the responses to it.
C18_ArrivalOrder ==
    /\ [](\A c \in Conns :
            /\ \A i, j \in 1..Len(wire[c]) : (i < j) => wire[c][i].n <= wire[c][j].n
            /\ \A i \in 1..Len(wire[c]) :
                  /\ (wire[c][i].dir = "out")
                      => (i > 1 /\ wire[c][i - 1] = [dir |-> "in", n |-> wire[c][i].n, frame |-> wire[c][i - 1].frame])
                  /\ (wire[c][i].dir = "in" /\ ExpectedErrorCode(wire[c][i].frame) # 0 /\ i < Len(wire[c]))
                      => /\ wire[c][i + 1].dir = "out"
                         /\ wire[c][i + 1].n = wire[c][i].n
                         /\ wire[c][i + 1].frame.text[2]["error"][2]["code"] = JInt(ExpectedErrorCode(wire[c][i].frame)))
    /\ [][\A c \in Conns :
            (nread'[c] # nread[c])
            => /\ nread'[c] = nread[c] + 1
               /\ pc[c] = "recv"
               /\ ret[c] # Pending
               /\ (ret[c][1] = "Some" \/ UndecodableText(c)) => Len(reply[c]) = 1]_vars

\* a text that is not JSON, then a request of the wrong version: the parse
\* error and the validation error are on the wire in that order
C18_Witness ==
    \E c \in Conns :
        /\ Len(wire[c]) = 4
        /\ wire[c][1] = [dir |-> "in", n |-> 1, frame |-> TextFrame(Malformed)]
        /\ wire[c][2].dir = "out" /\ IsErrorFrame(wire[c][2].frame, -32700)
        /\ wire[c][3] = [dir |-> "in", n |-> 2, frame |-> TextFrame(Doc("1.0", "ping", None, Some(JInt(1))))]
        /\ wire[c][4].dir = "out" /\ wire[c][4].frame.text[2]["error"][2]["code"] = JInt(-32600)
        /\ wire[c][4].frame.text[2]["id"] = JInt(1)

\* C19 as stated: handler invocation is not serialized per connection, so while
\* the handler of a call is in flight the loop takes the next frame the peer
\* has pipelined on the connection.
C19_NotSerialized ==
    \A c \in Conns :
        (pc[c] \in {"invoke", "hung"} /\ Req(c).id # None /\ TotalRead < MaxFrames)
        => ENABLED (\E t \in ConnDocs : RecvText(c, t))

\* the position of the inbound frame number k in the record of connection c,
\* or 0
InAt(c, k) ==
    IF \E i \in 1..Len(wire[c]) : wire[c][i].dir = "in" /\ wire[c][i].n = k
    THEN CHOOSE i \in 1..Len(wire[c]) : wire[c][i].dir = "in" /\ wire[c][i].n = k
    ELSE 0

\* C19 amended: handler invocation is serialized per connection: while handle_request
\* runs for a frame of a connection, its handler in flight or not, no frame of
\* that connection is read, so at most one handler of a connection is in flight
\* and the responses to calls pipelined on a connection are written in the
\* order of the calls, each before the next call is read.
C19_SerializedPerConnection ==
    /\ [](\A c \in Conns :
            \A i, j \in 1..Len(wire[c]) :
                (wire[c][i].dir = "out" /\ wire[c][j].dir = "out" /\ i < j)
                => /\ wire[c][i].n < wire[c][j].n
                   /\ InAt(c, wire[c][i].n) < i
                   /\ i < InAt(c, wire[c][j].n)
                   /\ InAt(c, wire[c][j].n) < j)
    /\ [][\A c \in Conns :
            (pc[c] \in {"read", "waiting", "locked", "invoke", "hung"})
            => /\ nread'[c] = nread[c] /\ frame'[c] = frame[c]
               /\ handler'[c] \in {handler[c], methods[Req(c).method]}
               /\ Len(invoked'[c]) <= 1]_vars

\* two calls pipelined on one connection, the first to the application handler
\* and the second to echo, were answered in that order
C19_Witness ==
    \E c \in Conns :
        /\ Len(wire[c]) = 4
        /\ wire[c][1] = [dir |-> "in", n |-> 1, frame |-> TextFrame(Doc("2.0", "slow", None, Some(JInt(1))))]
        /\ wire[c][2].dir = "out" /\ wire[c][2].frame.text[2]["id"] = JInt(1)
        /\ wire[c][3].dir = "in" /\ wire[c][3].frame.kind = "text" /\ wire[c][3].frame.text # Malformed
        /\ wire[c][3].frame.text[2]["method"] = JStr("echo")
        /\ wire[c][4].dir = "out" /\ wire[c][4].frame.text[2]["id"] = JInt(7)

\* what a connection has of its own: whether it is closed and why, its frames
\* read, the frame in hand and what handle_request returned for it, the frames
\* sent for it, and its wire
ConnState(c) == <<pc[c] = "closed", closedBy[c], nread[c], frame[c], ret[c], reply[c], wire[c], outcome[c]>>

\* C20: connections are independent: a step that changes one connection (a
\* frame of any kind read, a response or a pong sent, a failed send, a close,
\* a panic) leaves every other connection as it was.
C20_ConnectionsIndependent ==
    [][\A c, d \in Conns :
        (c # d /\ ConnState(c)' # ConnState(c)) => ConnState(d)' = ConnState(d)]_vars

\* a connection was closed by a failed send while the other, which had already
\* sent a response, stayed open with that response
C20_Witness ==
    \E c, d \in Conns :
        /\ c # d
        /\ closedBy[c] = "sendfail"
        /\ pc[d] = "recv" /\ Len(reply[d]) = 1 /\ closedBy[d] = StillOpen
        /\ Len(wire[d]) = 2 /\ Len(wire[c]) = 1

\* C21: every ping frame read is answered with one pong frame carrying the
\* payload of the ping, sent before the next frame is read, and the dispatcher
\* is not called for it; the pong is missing only when its send failed, which
\* ends the loop.
C21_PingAnswered ==
    \A c \in Conns :
        /\ (frame[c].kind = "ping")
            => /\ ret[c] = NotCalled /\ lookups[c] = 0 /\ invoked[c] = <<>>
               /\ pc[c] \in {"send", "recv", "closed"}
               /\ reply[c] \in {<<>>, <<[kind |-> "pong", data |-> frame[c].data]>>}
               /\ (pc[c] = "send") => reply[c] = <<>>
               /\ (pc[c] = "recv") => Len(reply[c]) = 1
               /\ (pc[c] = "closed") => closedBy[c] \in {"sendfail", "eof"}
               /\ (reply[c] = <<>> /\ pc[c] # "send") => closedBy[c] = "sendfail"
        /\ \A i \in 1..Len(wire[c]) :
              (wire[c][i].dir = "in" /\ wire[c][i].frame.kind = "ping" /\ i < Len(wire[c]))
              => /\ wire[c][i + 1] = [dir |-> "out", n |-> wire[c][i].n,
                                       frame |-> [kind |-> "pong", data |-> wire[c][i].frame.data]]
                 /\ \A j \in (i + 2)..Len(wire[c]) : wire[c][j].n > wire[c][i].n

\* two pings with different payloads on one connection, each answered with
\* its own payload before the next was read
C21_Witness ==
    \E c \in Conns :
        wire[c] = <<[dir |-> "in", n |-> 1, frame |-> [kind |-> "ping", data |-> "k"]],
                    [dir |-> "out", n |-> 1, frame |-> [kind |-> "pong", data |-> "k"]],
                    [dir |-> "in", n |-> 2, frame |-> [kind |-> "ping", data |-> "m"]],
                    [dir |-> "out", n |-> 2, frame |-> [kind |-> "pong", data |-> "m"]]>>

\* number of frames of direction d in the record w
RECURSIVE CountDir(_, _)
CountDir(w, d) == IF w = <<>> THEN 0 ELSE (IF w[1].dir = d THEN 1 ELSE 0) + CountDir(Tail(w), d)

\* C22: each inbound frame produces at most one outbound frame: a text frame
\* that is fully processed has produced one when decoding failed or
\* handle_request returned Some, none when it returned None; a pong, a close
\* frame and a transport error produce none; a frame is sent only for the
\* inbound frame in hand, so nothing is sent before a frame is read.
C22_AtMostOneFramePerInbound ==
    /\ [](\A c \in Conns :
            /\ Len(reply[c]) <= 1
            /\ (frame[c].kind \in {"none", "pong", "close", "error"}) => reply[c] = <<>>
            /\ (frame[c].kind = "text" /\ ret[c] \in {RetNone, Pending}) => reply[c] = <<>>
            /\ (frame[c].kind = "text" /\ pc[c] = "recv")
                => (Len(reply[c]) = 1) = (UndecodableText(c) \/ ret[c][1] = "Some")
            /\ (reply[c] # <<>>) => (reply[c][1].kind = "text") = (frame[c].kind \in {"text", "binary"})
            /\ CountDir(wire[c], "out") <= CountDir(wire[c], "in")
            /\ \A i \in 1..Len(wire[c]) :
                  (wire[c][i].dir = "out")
                  => (i > 1 /\ wire[c][i - 1].dir = "in" /\ wire[c][i - 1].n = wire[c][i].n))
    /\ [][\A c \in Conns :
            (reply'[c] # reply[c] /\ reply'[c] # <<>>)
            => (pc[c] = "send" /\ frame'[c] = frame[c] /\ reply[c] = <<>>)]_vars

\* a notification that produced no frame, then a call that produced one
C22_Witness ==
    \E c \in Conns :
        /\ Len(wire[c]) = 3
        /\ wire[c][1] = [dir |-> "in", n |-> 1, frame |-> TextFrame(Doc("2.0", "slow", None, None))]
        /\ wire[c][2].dir = "in" /\ wire[c][2].n = 2 /\ wire[c][2].frame.kind = "text"
        /\ wire[c][3].dir = "out" /\ wire[c][3].n = 2

\* both registrations of the application have returned
BothRegistered == \A r \in AppRegs \cup LaterRegs : pc[r] = "done"

\* the step of connection c is the registry lookup of a valid request
LookupStep(c) == pc[c] = "locked" /\ lookups'[c] = lookups[c] + 1

\* C23: once register_method(name, h1) and then register_method(name, h2)
\* have returned, the registry holds exactly one handler for name, h2; every
\* lookup of name that happens from then on invokes h2, never h1; and each
\* registration call ends by returning, its only outcome.
C23_LastRegistrationWins ==
    /\ [](BothRegistered =>
            /\ reg["r1"].name = reg["r2"].name
            /\ reg["r1"].name \notin BuiltinNames
            /\ reg["r1"].name \in DOMAIN methods
            /\ methods[reg["r1"].name] = reg["r2"].h
            /\ methods[reg["r1"].name] # reg["r1"].h)
    /\ [](\A r \in AppRegs \cup LaterRegs : pc[r] \in {"idle", "waiting", "locked", "done"})
    /\ [][\A c \in Conns :
            (BothRegistered /\ LookupStep(c) /\ Req(c).method = reg["r1"].name)
            => /\ handler'[c] = reg["r2"].h
               /\ invoked'[c][Len(invoked'[c])][1] = reg["r2"].h]_vars

\* a call of the name registered twice has been answered by the second handler
C23_Witness ==
    /\ BothRegistered
    /\ \E c \in Conns :
        /\ ParsedText(c)
        /\ Req(c).method = "slow"
        /\ ~IsNotification(Req(c))
        /\ handler[c] = "h2"
        /\ reply[c] # <<>>
    /\ \E c \in Conns : \E i \in 1..Len(invoked[c]) : invoked[c][i][1] = "h1"

\* a register_method call for name has returned
Registered(name) == \E t \in RegTasks : pc[t] = "done" /\ reg[t].name = name

\* C24: once a register_method call for a name has returned, whether it was
\* made before any frame was read or while frames are being served, the name
\* is in the registry shared by all clones, and every lookup of that name by
\* any connection from then on finds a handler and goes on to invoke it: it
\* does not produce MethodNotFound.
C24_RegistrationEffective ==
    /\ [](\A t \in RegTasks : pc[t] = "done" => reg[t].name \in DOMAIN methods)
    /\ [][\A c \in Conns :
            (LookupStep(c) /\ Registered(Req(c).method))
            => /\ handler'[c] \in BuiltinNames \cup AppHandlers
               /\ ret'[c] = Pending
               /\ pc'[c] = "invoke"]_vars

\* one connection was told MethodNotFound for a name before its registration
\* returned, and a call of the same name on the other connection, looked up
\* after the registration returned, was answered by the handler
C24_Witness ==
    \E c, d \in Conns :
        /\ Registered("slow")
        /\ ParsedText(c) /\ Req(c).method = "slow" /\ ReturnedError(c, MethodNotFound)
        /\ Len(reply[c]) = 1
        /\ nread[c] = 1
        /\ ParsedText(d) /\ Req(d).method = "slow" /\ ~IsNotification(Req(d))
        /\ handler[d] \in AppHandlers
        /\ ret[d][1] = "Some" /\ ret[d][2] = "Ok"
        /\ Len(reply[d]) = 1

\* the lookup of the request in hand of connection d succeeded
LookupSucceeded(d) == ParsedText(d) /\ lookups[d] > 0 /\ handler[d] # NoHandler

\* C25: no step of register_method, handle_request or list_methods removes a
\* name from the registry; so a name one lookup found is found by every
\* lookup after it, on any connection, and a later list_methods returns
\* every name an earlier one returned.
C25_NeverShrinks ==
    /\ [][DOMAIN methods \subseteq DOMAIN methods']_vars
    /\ [][\A c, d \in Conns :
            (LookupStep(c) /\ LookupSucceeded(d) /\ Req(d).method = Req(c).method)
            => handler'[c] # NoHandler]_vars
    /\ [](\A l \in Listers : pc[l] = "done" => Elems(listed[l]) \subseteq DOMAIN methods)
    /\ []((pc["l1"] = "done" /\ pc["l2"] = "done") => Elems(listed["l1"]) \subseteq Elems(listed["l2"]))

\* the registry grew between the two list_methods calls, both returned the
\* built-ins, and two lookups of the added name succeeded one after the other
C25_Witness ==
    /\ pc["l1"] = "done" /\ pc["l2"] = "done"
    /\ Elems(listed["l1"]) = BuiltinNames
    /\ Elems(listed["l2"]) = BuiltinNames \cup {"slow"}
    /\ BothRegistered
    /\ \A c \in Conns : LookupSucceeded(c) /\ Req(c).method = "slow" /\ nread[c] = 1

\* the step is the insert of a register_method call
InsertStep ==
    \E t \in RegTasks :
        /\ pc[t] = "locked"
        /\ pc'[t] = "done"
        /\ methods' = Insert(methods, reg[t].name, reg[t].h)

\* the step is one of connection c processing a frame
DispatchStep(c) ==
    <<frame[c], handler[c], ret[c], reply[c], nread[c], lookups[c], outcome[c]>>
    # <<frame'[c], handler'[c], ret'[c], reply'[c], nread'[c], lookups'[c], outcome'[c]>>

\* C26: only the insert of register_method changes the name-to-handler map:
\* no step of a connection processing a request (valid or invalid, call or
\* notification, of a registered or an unregistered method) changes it, and
\* no step of list_methods does.
C26_DispatchLeavesRegistry ==
    /\ [][methods' # methods => InsertStep]_vars
    /\ [][(\E c \in Conns : DispatchStep(c)) => methods' = methods]_vars
    /\ [][(listed' # listed) => methods' = methods]_vars

\* a call of a method not yet registered was answered MethodNotFound, the
\* application then registered the method, a notification of it ran its
\* handler, and the registry holds the built-ins and that one registration
C26_Witness ==
    /\ methods = Insert([k \in BuiltinNames |-> k], "slow", "h1")
    /\ \E c, d \in Conns :
        /\ ParsedText(c) /\ Req(c).method = "slow" /\ ReturnedError(c, MethodNotFound)
        /\ Len(reply[c]) = 1
        /\ ParsedText(d) /\ IsNotification(Req(d)) /\ handler[d] = "h1"
        /\ ret[d] = RetNone /\ pc[d] = "recv"

\* the method names of ValidateMethods that begin with the four characters
\* r, p, c and dot, in that case
ReservedProbes == {"rpc.", "rpc.internal", "rpc.reserved"}

\* what the request of the text frame of c is expected to get from validate()
ExpectedInvalid(c) ==
    \/ Req(c).jsonrpc # "2.0"
    \/ Req(c).method = ""
    \/ Req(c).method \in ReservedProbes

\* C27: validate() fails, and handle_request answers InvalidRequest, exactly
\* for the requests whose version is not "2.0", whose method is empty, or
\* whose method begins with "rpc." in that case; every other request passes,
\* whatever its params and id; and the request is the same before and after.
C27_ValidateExactly ==
    /\ [](\A c \in Conns :
            ParsedText(c)
            => /\ (Validate(Req(c))[1] = "err") = ExpectedInvalid(c)
               /\ ReturnedError(c, InvalidRequest) = ExpectedInvalid(c)
               /\ ExpectedInvalid(c) => handler[c] = NoHandler)
    /\ [][\A c \in Conns : nread'[c] = nread[c] => frame'[c] = frame[c]]_vars

\* a request with a method that only resembles the reserved prefix, with
\* params and an id, passed validate() and reached the lookup
C27_Witness ==
    \E c \in Conns :
        /\ ParsedText(c)
        /\ Req(c).method \in {"rpc", "rpcx", "RPC.x", "Rpc.internal", "xrpc.y"}
        /\ Req(c).params # None
        /\ Req(c).id = Some(JInt(7))
        /\ ~ExpectedInvalid(c)
        /\ ReturnedError(c, MethodNotFound)
        /\ Len(reply[c]) = 1

\* the hardcoded envelope: code -32603, message "Internal error", id null
InternalErrorEnvelope ==
    JObj([jsonrpc |-> JStr("2.0"),
          error |-> JObj([code |-> JInt(-32603), message |-> JFmt(<<"Internal error">>)]),
          id |-> JNull])

\* C28: when the encoding of the response handle_request returned fails,
\* whether a success or an error, nothing has been sent for the frame yet,
\* and the next step of the connection sends exactly one frame, the error
\* envelope with code -32603 and id null, and goes back to reading; so every
\* outcome of handle_request that is Some has one frame on the wire once the
\* connection is back at reading.
C28_EncodeFailureAnswered ==
    /\ [](\A c \in Conns :
            pc[c] = "sendfallback"
            => ParsedText(c) /\ ret[c][1] = "Some" /\ reply[c] = <<>> /\ closedBy[c] = StillOpen)
    /\ [][\A c \in Conns :
            (pc[c] = "sendfallback" /\ <<pc'[c], reply'[c]>> # <<pc[c], reply[c]>>)
            => /\ reply'[c] = <<TextFrame(InternalErrorEnvelope)>>
               /\ pc'[c] = "recv"
               /\ closedBy'[c] = StillOpen
               /\ wire'[c] = Append(wire[c], [dir |-> "out", n |-> nread[c], frame |-> TextFrame(InternalErrorEnvelope)])]_vars
    /\ [](\A c \in Conns :
            (ParsedText(c) /\ ret[c][1] = "Some" /\ pc[c] = "recv")
            => /\ Len(reply[c]) = 1
               /\ reply[c][1] \in {TextFrame(OutcomeToJson(ret[c])), TextFrame(InternalErrorEnvelope)})

\* the encoding of a success failed on one connection and that of an error on
\* the other; each got the envelope and both are reading again
C28_Witness ==
    \E c, d \in Conns :
        /\ ParsedText(c) /\ ret[c][1] = "Some" /\ ret[c][2] = "Ok"
        /\ ParsedText(d) /\ ret[d][1] = "Some" /\ ret[d][2] = "Err"
        /\ reply[c] = <<TextFrame(InternalErrorEnvelope)>>
        /\ reply[d] = <<TextFrame(InternalErrorEnvelope)>>
        /\ pc[c] = "recv" /\ pc[d] = "recv"

\* a JSON value that is a number
IsNumber(v) == v[1] \in {"int", "float"}

\* connection c has the outcome of a call of add in hand
AddAnswered(c) ==
    /\ ParsedText(c)
    /\ Req(c).method = "add"
    /\ Req(c).id # None
    /\ ret[c][1] = "Some"

\* the params of the request of c are an array of exactly two numbers
TwoNumbers(c) ==
    /\ Req(c).params # None
    /\ Req(c).params[1][1] = "arr"
    /\ Len(Req(c).params[1][2]) = 2
    /\ \A i \in 1..2 : IsNumber(Req(c).params[1][2][i])

\* the sum of two JSON numbers as the claim gives it: the integer for integer
\* operands
SumValue(x, y) == IF x[1] = "int" /\ y[1] = "int" THEN JInt(x[2] + y[2]) ELSE JFloat(x[2] + y[2])

\* C29: with add registered, a call of add whose params are an array of two
\* numbers [a, b] is answered with a success response whose result is the
\* sum a + b, the integer itself for integer operands ([2,3] gives 5), and
\* whose id is the id of the request.
C29_AddReturnsSum ==
    \A c \in Conns :
        (AddAnswered(c) /\ TwoNumbers(c))
        => /\ ret[c] = RetOk(ResponseNew(SumValue(Req(c).params[1][2][1], Req(c).params[1][2][2]),
                                          Req(c).id[1]))
           /\ \A i \in 1..Len(reply[c]) :
                 reply[c][i] = TextFrame(JObj([jsonrpc |-> JStr("2.0"),
                                               result |-> SumValue(Req(c).params[1][2][1], Req(c).params[1][2][2]),
                                               id |-> Req(c).id[1]]))

\* the params member as the peer wrote it in the text frame of c
RawParams(c) == IF HasMember(c, "params") THEN Some(frame[c].text[2]["params"]) ELSE None

\* the message expected for params that are not an array of two numbers; the
\* empty set where only the code is stated (params written as null)
ExpectedAddMessage(p) ==
    IF p = None THEN {"Parameters required"}
    ELSE IF p[1] = JNull THEN {}
    ELSE IF p[1][1] # "arr" THEN {"Parameters must be an array of numbers"}
    ELSE IF Len(p[1][2]) # 2 THEN {"Exactly two numbers required"}
    ELSE IF ~IsNumber(p[1][2][1]) THEN {"First parameter must be a number"}
    ELSE {"Second parameter must be a number"}

\* the params the peer wrote are an array of exactly two numbers
RawTwoNumbers(c) ==
    /\ RawParams(c) # None
    /\ RawParams(c)[1][1] = "arr"
    /\ Len(RawParams(c)[1][2]) = 2
    /\ \A i \in 1..2 : IsNumber(RawParams(c)[1][2][i])

\* C30: with add registered, a call of add whose params are absent, not an
\* array, an array of a length other than two, or an array with an element
\* that is not a number is answered with an error of code -32602 and the id
\* of the request; the message is that of the first check that fails in that
\* order, so an array of another length is reported as "Exactly two numbers
\* required" whatever its elements, and of two elements that are not numbers
\* the first is named.
C30_AddRejects ==
    \A c \in Conns :
        (AddAnswered(c) /\ ~RawTwoNumbers(c))
        => /\ ReturnedError(c, -32602)
           /\ ret[c][3].id = Req(c).id[1]
           /\ \A m \in ExpectedAddMessage(RawParams(c)) : ret[c][3].error.message = <<m>>
           /\ \A i \in 1..Len(reply[c]) :
                 /\ reply[c][i].text[2]["error"][2]["code"] = JInt(-32602)
                 /\ reply[c][i].text[2]["id"] = Req(c).id[1]

\* Scenario B: params [2] with id 7 has been answered with -32602, "Exactly
\* two numbers required" and id 7
C30_Witness ==
    \E c \in Conns :
        /\ frame[c] = TextFrame(Doc("2.0", "add", Some(JArr(<<JInt(2)>>)), Some(JInt(7))))
        /\ reply[c] = <<TextFrame(JObj([jsonrpc |-> JStr("2.0"),
                                         error |-> JObj([code |-> JInt(-32602),
                                                         message |-> JFmt(<<"Exactly two numbers required">>)]),
                                         id |-> JInt(7)]))>>

\* C31: with echo registered, a call of echo is answered with a success
\* response whose result is the params member exactly as the peer wrote it,
\* null when the request has no params member, and whose id is the id of the
\* request.
C31_EchoReturnsParams ==
    \A c \in Conns :
        (ParsedText(c) /\ Req(c).method = "echo" /\ Req(c).id # None /\ ret[c][1] = "Some")
        => /\ ret[c] = RetOk(ResponseNew(UnwrapOr(RawParams(c), JNull), Req(c).id[1]))
           /\ \A i \in 1..Len(reply[c]) :
                 reply[c][i] = TextFrame(JObj([jsonrpc |-> JStr("2.0"),
                                               result |-> UnwrapOr(RawParams(c), JNull),
                                               id |-> Req(c).id[1]]))

\* the second frame of a connection, a call without params under a string
\* id, has been answered with null under that id
C31_Witness ==
    /\ nread["c1"] = 2
    /\ frame["c1"] = TextFrame(Doc("2.0", "echo", None, Some(JStr("a"))))
    /\ reply["c1"] = <<TextFrame(JObj([jsonrpc |-> JStr("2.0"), result |-> JNull, id |-> JStr("a")]))>>

\* the names whose register_method call has inserted its entry
InsertedNames == {reg[t].name : t \in {u \in RegTasks : pc[u] = "done"}}

\* C32: list_methods returns the registry as it was when the call took the
\* read lock: no insert happens while the call holds the lock, and the Vec it
\* returns holds each name of the map at that moment exactly once; so it holds
\* exactly the names whose register_method had inserted its entry, and never
\* a name that was not registered.
C32_ListIsSnapshot ==
    /\ [][(\E l \in Listers : pc[l] = "locked") => methods' = methods]_vars
    /\ [][\A l \in Listers :
            listed'[l] # listed[l]
            => /\ pc[l] = "locked"
               /\ Elems(listed'[l]) = DOMAIN methods
               /\ Elems(listed'[l]) = InsertedNames
               /\ Len(listed'[l]) = Cardinality(DOMAIN methods)]_vars
    /\ [](\A l \in Listers :
            /\ \A i, j \in 1..Len(listed[l]) : listed[l][i] = listed[l][j] => i = j
            /\ Elems(listed[l]) \subseteq InsertedNames
            /\ pc[l] # "done" => listed[l] = <<>>)

\* two calls returned the same names in different orders, while the registry
\* was still being filled
C32_Witness ==
    /\ pc["l1"] = "done" /\ pc["l2"] = "done"
    /\ Len(listed["l1"]) = 2
    /\ Elems(listed["l1"]) = Elems(listed["l2"])
    /\ listed["l1"] # listed["l2"]
    /\ \E t \in SpawnedTasks : pc[t] # "done"

\* decoding the text t gives a value of the kind of x (a Response for "Ok",
\* an ErrorResponse for "Err") whose id is literally the id of x
RoundTripsId(kind, x, t) ==
    LET d == IF kind = "Ok" THEN DecodeResponse(t) ELSE DecodeErrorResponse(t) IN
    /\ d[1] = "ok"
    /\ d[2].id = x.id
    /\ (d[2].id = JNull) = (x.id = JNull)
    /\ t[1] = "obj" /\ "id" \in DOMAIN t[2] /\ t[2]["id"] = x.id

\* C33: encoding a Response or an ErrorResponse and decoding the text again
\* gives a value with literally the same id: null stays null and is never
\* left out, the integer 7, the float 7.0 and the strings "7" and "" stay
\* what they were. It holds for every response handle_request returns, for
\* the frame sent for it, and for the parse-error and internal-error
\* envelopes the connection handler builds itself.
C33_IdRoundTrips ==
    \A c \in Conns :
        /\ (ParsedText(c) /\ ret[c][1] = "Some")
            => /\ RoundTripsId(ret[c][2], ret[c][3], OutcomeToJson(ret[c]))
               /\ \A i \in 1..Len(reply[c]) :
                     \/ RoundTripsId(ret[c][2], ret[c][3], reply[c][i].text)
                     \/ RoundTripsId("Err", ErrorResponseFromCode(InternalError, JNull), reply[c][i].text)
        /\ (UndecodableText(c) /\ reply[c] # <<>>)
            => RoundTripsId("Err", ErrorResponseFromCode(ParseError, JNull), reply[c][1].text)

\* an error under a null id and then a success under the float 7.0 have been
\* sent on the connection
C33_Witness ==
    /\ Len(wire["c1"]) = 4
    /\ wire["c1"][2].dir = "out"
    /\ DecodeErrorResponse(wire["c1"][2].frame.text)[1] = "ok"
    /\ DecodeErrorResponse(wire["c1"][2].frame.text)[2].id = JNull
    /\ wire["c1"][4].dir = "out"
    /\ DecodeResponse(wire["c1"][4].frame.text)[1] = "ok"
    /\ DecodeResponse(wire["c1"][4].frame.text)[2].id = JFloat(7)

\* the code member of the error object in the text of an outbound frame
FrameCode(f) == f.text[2]["error"][2]["code"]

\* the integer the error returned for the request of c is expected to carry,
\* by the origin of the error
ExpectedCode(c) ==
    IF Req(c).jsonrpc # "2.0" THEN -32600
    ELSE IF Req(c).method \notin DOMAIN methods THEN -32601
    ELSE IF Req(c).method = "add" THEN -32602
    ELSE -32000

\* C34: ParseError, InvalidRequest, MethodNotFound, InvalidParams,
\* InternalError and ServerError are -32700, -32600, -32601, -32602, -32603
\* and -32000; an error object built from a code by new or by custom carries
\* that integer; and so does every error the program produces: a parse
\* error, an invalid request, an unknown method, invalid params, a server
\* error of a handler, and the internal error sent when encoding fails.
C34_ErrorCodeValues ==
    /\ <<ParseError, InvalidRequest, MethodNotFound, InvalidParams, InternalError, ServerError>>
        = <<-32700, -32600, -32601, -32602, -32603, -32000>>
    /\ \A code \in {-32700, -32600, -32601, -32602, -32603, -32000} :
        /\ ErrorObjectNew(code, None).code = code
        /\ ErrorObjectCustom(code, <<"text">>, Some(JNull)).code = code
    /\ \A c \in Conns :
        /\ (UndecodableText(c) /\ reply[c] # <<>>) => FrameCode(reply[c][1]) = JInt(-32700)
        /\ (ParsedText(c) /\ ret[c][1] = "Some" /\ ret[c][2] = "Err")
            => /\ ret[c][3].error.code = ExpectedCode(c)
               /\ \A i \in 1..Len(reply[c]) : FrameCode(reply[c][i]) \in {JInt(ExpectedCode(c)), JInt(-32603)}
        /\ (ParsedText(c) /\ ret[c][1] = "Some" /\ reply[c] # <<>> /\ reply[c][1].text # OutcomeToJson(ret[c]))
            => FrameCode(reply[c][1]) = JInt(-32603)

\* a server error of a handler and then the internal error of a failed
\* encoding have been sent, with -32000 and -32603
C34_Witness ==
    /\ Len(wire["c1"]) = 4
    /\ \A i \in {2, 4} : wire["c1"][i].dir = "out" /\ "error" \in DOMAIN wire["c1"][i].frame.text[2]
    /\ FrameCode(wire["c1"][2].frame) = JInt(-32000)
    /\ FrameCode(wire["c1"][4].frame) = JInt(-32603)

\* connection c has in hand a notification that passed validate()
ValidNotification(c) == ParsedText(c) /\ IsNotification(Req(c)) /\ Validate(Req(c)) = <<"ok">>

\* connection c is done with the frame in hand
Processed(c) == pc[c] \in {"recv", "closed"}

\* C35: for a valid notification nothing is written to the connection and
\* handle_request returns no response. When the method is registered, its
\* handler is invoked exactly once, with the params of the request, and
\* whatever it returns, a value or an error, goes nowhere; when it is not
\* registered, no handler is invoked and no error is produced.
C35_NotificationOutcomeDiscarded ==
    \A c \in Conns :
        ValidNotification(c)
        => /\ reply[c] = <<>>
           /\ ret[c] \in {Pending, RetNone}
           /\ pc[c] # "send"
           /\ Len(invoked[c]) <= 1
           /\ \A i \in 1..Len(invoked[c]) : invoked[c][i] = <<methods[Req(c).method], Req(c).params>>
           /\ outcome[c] # NoOutcome => Len(invoked[c]) = 1
           /\ (Processed(c) /\ closedBy[c] \in {StillOpen, "close", "error", "eof"})
               => /\ ret[c] = RetNone
                  /\ IF Req(c).method \in DOMAIN methods
                     THEN Len(invoked[c]) = 1 /\ outcome[c][1] \in {"ok", "err"}
                     ELSE invoked[c] = <<>> /\ outcome[c] = NoOutcome /\ handler[c] = NoHandler

\* a notification whose handler returned an error has been processed: the
\* handler ran once, nothing was returned and nothing was sent
C35_Witness ==
    \E c \in Conns :
        /\ ValidNotification(c)
        /\ HasMember(c, "params")
        /\ Len(invoked[c]) = 1
        /\ outcome[c][1] = "err"
        /\ pc[c] = "recv" /\ ret[c] = RetNone /\ reply[c] = <<>>

\* C36: a request that fails validate() reaches no handler, be it a call or a
\* notification and even when a handler is registered under its method name:
\* handle_request returns before it reads the registry.
C36_InvalidNeverDispatched ==
    \A c \in Conns :
        (ParsedText(c) /\ Validate(Req(c))[1] = "err")
        => /\ invoked[c] = <<>>
           /\ handler[c] = NoHandler
           /\ lookups[c] = 0
           /\ outcome[c] = NoOutcome
           /\ c \notin rw_readers
           /\ pc[c] \in {"send", "recv", "closed", "sendfallback"}

\* a notification to a reserved name has been processed while a handler was
\* registered under exactly that name
C36_Witness ==
    \E c \in Conns :
        /\ ParsedText(c)
        /\ Req(c).jsonrpc = "2.0"
        /\ Req(c).method \in ReservedRegNames \cap DOMAIN methods
        /\ methods[Req(c).method] = "h1"
        /\ IsNotification(Req(c))
        /\ pc[c] = "recv"
        /\ invoked[c] = <<>>

\* the register_method call of the application has returned
AppRegistered == \A r \in AppRegs : pc[r] = "done"

\* C37: once the application's register_method call under a built-in name
\* has returned, every lookup of that name yields the application's handler,
\* whenever the tasks spawned by the constructor run.
C37_OverrideStays ==
    [][\A c \in Conns :
          (AppRegistered /\ LookupStep(c) /\ Req(c).method = reg["r1"].name)
          => handler'[c] = reg["r1"].h]_vars

\* the registry holds the four built-ins
BuiltinsPresent == BuiltinNames \subseteq DOMAIN methods

\* C38: with the spawned tasks scheduled fairly and every handler returning,
\* the registry comes to hold echo, ping, add and getServerInfo and keeps
\* them, and from then on no lookup of one of them misses.
C38_BuiltinsEventually ==
    /\ <>[]BuiltinsPresent
    /\ [][\A c \in Conns :
             (BuiltinsPresent /\ LookupStep(c) /\ Req(c).method \in BuiltinNames)
             => /\ handler'[c] = Req(c).method
                /\ ret'[c] = Pending]_vars

\* the four tasks have run and the second request of a connection, to a
\* built-in, has been dispatched to its handler, which returned
C38_Witness ==
    /\ BuiltinsPresent
    /\ \A t \in SpawnedTasks : pc[t] = "done"
    /\ nread["c1"] = 2
    /\ ParsedText("c1")
    /\ handler["c1"] \in BuiltinNames
    /\ outcome["c1"][1] = "ok"

====
